---------------------------- MODULE Spec2Model ----------------------------
(***************************************************************************)
(* LLMStudio provider core: chat/achat (validation, model membership, the   *)
(* retry loop), the stream normalizers (Anthropic, VertexAI, pass-through), *)
(* the streaming response handler and join_chunks.                          *)
(*                                                                          *)
(* Python values are modelled as follows.  Strings are TLA+ strings, joined *)
(* with \o.  None in a string-valued field is the string None.  A chunk is  *)
(* the dict that ChatCompletionChunk(...).model_dump() gives, reduced to    *)
(* the keys the handler and join_chunks read: model, choices[0].finish_     *)
(* reason (fr), choices[0].delta.content / tool_calls / function_call.  The *)
(* key n is the chunk's arrival ordinal in its stream; it stands for the    *)
(* chunk's identity and is copied by {**chunk, ...} like every other key.   *)
(***************************************************************************)
EXTENDS Integers, Sequences, FiniteSets, TLC

None == "<None>"

\* delta.tool_calls is None (modelled <<>>) or a list of fragments; the
\* normalizers of this repository build one-element lists.
NoToolCalls == <<>>

NoFunctionCall == [isNone |-> TRUE, name |-> None, arguments |-> None]

Fragment(index, id, name, arguments) ==
    [index |-> index, id |-> id, name |-> name, arguments |-> arguments]

FunctionCallDelta(name, arguments) ==
    [isNone |-> FALSE, name |-> name, arguments |-> arguments]

Chunk(model, fr, content, tool_calls, function_call) ==
    [n |-> 0, model |-> model, fr |-> fr, content |-> content,
     tool_calls |-> tool_calls, function_call |-> function_call]

\* Python truthiness of an Optional[str]: None and "" are falsy.
Truthy(s) == s # None /\ s # ""

RequestModel == "m1"

(***************************************************************************)
(* Stream normalizers.  Each maps one upstream event to the chunks it       *)
(* yields, with err the exception it raises after yielding them ("none"     *)
(* when it does not raise).                                                 *)
(***************************************************************************)
Parsed(chunks, err) == [chunks |-> chunks, err |-> err]

\* conftest.py MockProvider.parse_response: the upstream sequence is already a
\* sequence of chunks and is returned as it is.
ParseMock(ev) == Parsed(<<ev>>, "none")

\* AnthropicProvider.parse_response, one decoded line of iter_content.
AnthropicStopChunk == Chunk(RequestModel, "stop", None, NoToolCalls, NoFunctionCall)

ParseAnthropic(ev) ==
    IF ev.kind = "undecodable"
    THEN \* chunk.decode("utf-8") stands before the try
         Parsed(<<>>, "UnicodeDecodeError")
    ELSE
    IF ev.kind \in {"content_block_stop", "message_stop"}
    THEN Parsed(<<AnthropicStopChunk>>, "none")
    ELSE IF ev.kind = "content_block_delta"
         THEN \* json.loads(...) succeeded and has a "delta" object;
              \* delta.get("text") is None for a delta without text
              Parsed(<<Chunk(RequestModel, "none", ev.text, NoToolCalls,
                             NoFunctionCall)>>, "none")
         ELSE \* any other line, or an unparseable one: the bare except passes
              Parsed(<<>>, "none")

\* VertexAIProvider.parse_response (engine/providers/vertexai.py), one event.
\* Fault: the name and the arguments of a call travel in one chunk.
RECURSIVE VertexCallChunksMerged(_, _)
VertexCallChunksMerged(parts, index) ==
    IF parts = <<>> THEN <<>>
    ELSE <<Chunk(RequestModel, "none", None,
                 <<Fragment(index, "call_" \o Head(parts).name,
                            Head(parts).name, Head(parts).args)>>,
                 NoFunctionCall)>>
         \o VertexCallChunksMerged(Tail(parts), index + 1)

RECURSIVE VertexCallChunks(_, _)
VertexCallChunks(parts, index) ==
    IF parts = <<>> THEN <<>>
    ELSE <<Chunk(RequestModel, "none", None,
                 <<Fragment(index, "call_" \o Head(parts).name,
                            Head(parts).name, "")>>, NoFunctionCall),
           Chunk(RequestModel, "none", None,
                 <<Fragment(index, None, None, Head(parts).args)>>,
                 NoFunctionCall)>>
         \o VertexCallChunks(Tail(parts), index + 1)

VertexFirstChunk == Chunk(RequestModel, "none", None, NoToolCalls, NoFunctionCall)

\* Fault: the chunk after the text carries no finish_reason.
VertexFinalChunkOpen(fr) ==
    Chunk(RequestModel, "none", None, NoToolCalls, NoFunctionCall)

VertexFinalChunk(fr) == Chunk(RequestModel, fr, None, NoToolCalls, NoFunctionCall)

ParseVertexAI(ev) ==
    IF ev.kind = "malformed"
    THEN \* json.loads raises; nothing catches it
         Parsed(<<>>, "JSONDecodeError")
    ELSE IF ev.kind = "functionCall"
         THEN Parsed(<<VertexFirstChunk>> \o VertexCallChunks(ev.parts, 0)
                       \o <<VertexFinalChunk("tool_calls")>>, "none")
         ELSE IF Truthy(ev.text)
              THEN Parsed(<<Chunk(RequestModel, "none", ev.text, NoToolCalls,
                                  NoFunctionCall),
                            VertexFinalChunk("stop")>>, "none")
              ELSE Parsed(<<>>, "none")

\* The older normalizer (engine/providers/vertex.py), one event: it looks at
\* parts[0] only and yields function_call deltas.
ParseVertex(ev) ==
    IF ev.kind = "malformed"
    THEN Parsed(<<>>, "IndexError")          \* chunk.parts[0]
    ELSE IF ev.kind = "functionCall"
         THEN Parsed(<<Chunk(RequestModel, "none", None, NoToolCalls,
                             FunctionCallDelta(ev.parts[1].name, "")),
                       Chunk(RequestModel, "none", None, NoToolCalls,
                             FunctionCallDelta(None, ev.parts[1].args)),
                       VertexFinalChunk("function_call")>>, "none")
         ELSE IF Truthy(ev.text)
              THEN Parsed(<<Chunk(RequestModel, "none", ev.text, NoToolCalls,
                                  NoFunctionCall),
                            VertexFinalChunk("stop")>>, "none")
              ELSE Parsed(<<>>, "none")

ParseEvent(prov, ev) ==
    CASE prov = "anthropic" -> ParseAnthropic(ev)
      [] prov = "vertexai"  -> ParseVertexAI(ev)
      [] prov = "vertex"    -> ParseVertex(ev)
      [] OTHER              -> ParseMock(ev)

\* The whole generator: the chunks yielded over a finite event sequence, up to
\* the first exception, numbered in yield order.
RECURSIVE ParseAll(_, _)
ParseAll(prov, events) ==
    IF events = <<>> THEN Parsed(<<>>, "none")
    ELSE LET p == ParseEvent(prov, Head(events)) IN
         IF p.err # "none" THEN p
         ELSE LET rest == ParseAll(prov, Tail(events)) IN
              Parsed(p.chunks \o rest.chunks, rest.err)

Numbered(chunks) == [i \in 1..Len(chunks) |-> [chunks[i] EXCEPT !.n = i]]

ParseResponse(prov, events) ==
    LET p == ParseAll(prov, events) IN Parsed(Numbered(p.chunks), p.err)


(***************************************************************************)
(* join_chunks.  The result is the tuple (ChatCompletion, str) it returns,  *)
(* or isNone when it falls off its last elif and returns None, or the       *)
(* exception it raises (err).                                               *)
(***************************************************************************)
JoinResult(err, isNone, fr, content, tool_calls, function_call, output) ==
    [err |-> err, isNone |-> isNone, fr |-> fr, content |-> content,
     tool_calls |-> tool_calls, function_call |-> function_call,
     output |-> output]

JoinRaises(err) ==
    JoinResult(err, FALSE, None, None, <<>>, NoFunctionCall, None)

JoinReturnsNone ==
    JoinResult("none", TRUE, None, None, <<>>, NoFunctionCall, None)

RECURSIVE ConcatAll(_)
ConcatAll(strs) ==
    IF strs = <<>> THEN "" ELSE Head(strs) \o ConcatAll(Tail(strs))

\* str() of a Python list of strings: ['f', 'x']
RECURSIVE PyReprItems(_)
PyReprItems(strs) ==
    IF strs = <<>> THEN ""
    ELSE "'" \o Head(strs) \o "'"
         \o (IF Tail(strs) = <<>> THEN "" ELSE ", " \o PyReprItems(Tail(strs)))

PyStrList(strs) == "[" \o PyReprItems(strs) \o "]"

\* data = chunk...get("tool_calls")[0] for every chunk where that does not
\* raise TypeError (tool_calls is None), in chunk order.
RECURSIVE ToolCallData(_)
ToolCallData(chunks) ==
    IF chunks = <<>> THEN <<>>
    ELSE (IF Head(chunks).tool_calls = NoToolCalls THEN <<>>
          ELSE <<Head(chunks).tool_calls[1]>>)
         \o ToolCallData(Tail(chunks))

\* The keys of the dict tool_calls, in insertion order.
RECURSIVE IndexOrder(_, _)
IndexOrder(data, seen) ==
    IF data = <<>> THEN <<>>
    ELSE IF Head(data).index \in seen THEN IndexOrder(Tail(data), seen)
         ELSE <<Head(data).index>>
              \o IndexOrder(Tail(data), seen \cup {Head(data).index})

\* Fault: the grouping ignores the index.
GroupOfAll(data, index) == data

\* tool_calls[index]: the fragments appended under one key.
GroupOf(data, index) == SelectSeq(data, LAMBDA d : d.index = index)

SeqMap(Op(_), s) == [i \in 1..Len(s) |-> Op(s[i])]

SeqHas(s, P(_)) == \E i \in 1..Len(s) : P(s[i])

JoinToolCalls(chunks) ==
    LET data   == ToolCallData(chunks)
        order  == IndexOrder(data, {})
        groups == SeqMap(LAMBDA i : GroupOf(data, i), order)
        ids    == SeqMap(LAMBDA t : t[1].id, groups)
        names  == SeqMap(LAMBDA t : t[1].name, groups)
        argsNone == SeqHas(data, LAMBDA d : d.arguments = None)
        args_all == SeqMap(LAMBDA t :
                             ConcatAll(SeqMap(LAMBDA d : d.arguments, t)),
                           groups)
        parsed == [k \in 1..Len(groups) |->
                     [id |-> ids[k], name |-> names[k],
                      arguments |-> args_all[k], type |-> "function"]]
    IN  IF argsNone
        THEN JoinRaises("TypeError")         \* "".join over a None
        ELSE IF SeqHas(parsed, LAMBDA c : c.id = None \/ c.name = None)
        THEN JoinRaises("ValidationError")   \* Function / ToolCall need str
        ELSE JoinResult("none", FALSE, "tool_calls", None, parsed,
                        NoFunctionCall, PyStrList(names \o args_all))

JoinFunctionCall(chunks) ==
    LET body == SubSeq(chunks, 1, Len(chunks) - 1)
        function_calls ==
            SeqMap(LAMBDA c : c.function_call,
                   SelectSeq(body, LAMBDA c : ~c.function_call.isNone))
    IN  IF function_calls = <<>>
        THEN JoinRaises("IndexError")        \* function_calls[0]
        ELSE IF SeqHas(function_calls, LAMBDA f : f.arguments = None)
        THEN JoinRaises("TypeError")         \* str += None
        ELSE IF function_calls[1].name = None
        THEN JoinRaises("ValidationError")   \* FunctionCall needs a name
        ELSE LET arguments ==
                   ConcatAll(SeqMap(LAMBDA f : f.arguments, function_calls))
             IN  JoinResult("none", FALSE, "function_call", None, <<>>,
                            FunctionCallDelta(function_calls[1].name, arguments),
                            arguments)

\* The class names whose first chunk join_chunks skips.
\* Fault: no provider has a leading chunk left out.
StartIndexZero(cls) == 0

StartIndex(cls) == IF cls \in {"OpenAIProvider", "AzureProvider"} THEN 1 ELSE 0

JoinStop(cls, chunks) ==
    LET tail == SubSeq(chunks, StartIndex(cls) + 1, Len(chunks))
        stop_content ==
            ConcatAll(SeqMap(LAMBDA c : c.content,
                             SelectSeq(tail, LAMBDA c : Truthy(c.content))))
    IN  JoinResult("none", FALSE, "stop", stop_content, <<>>, NoFunctionCall,
                   stop_content)

\* Fault: an unknown finish_reason is joined as text.
join_chunks_lenient(cls, chunks) ==
    IF chunks = <<>> THEN JoinRaises("IndexError")
    ELSE LET finish_reason == chunks[Len(chunks)].fr IN
         CASE finish_reason = "tool_calls"    -> JoinToolCalls(chunks)
           [] finish_reason = "function_call" -> JoinFunctionCall(chunks)
           [] OTHER -> JoinStop(cls, chunks)

join_chunks(cls, chunks) ==
    IF chunks = <<>> THEN JoinRaises("IndexError")      \* chunks[-1]
    ELSE LET finish_reason == chunks[Len(chunks)].fr IN
         CASE finish_reason = "tool_calls"    -> JoinToolCalls(chunks)
           [] finish_reason = "function_call" -> JoinFunctionCall(chunks)
           [] finish_reason \in {"stop", "length"} -> JoinStop(cls, chunks)
           [] OTHER -> JoinReturnsNone

\* Fault: the join consumes the chunks it has read.
ChunksDrainedByJoin(chunks) == <<>>

\* join_chunks only reads its argument: it builds new lists by comprehension
\* and never assigns into, appends to or removes from chunks.
ChunksAfterJoin(chunks) == chunks

(***************************************************************************)
(* Metrics.  The tokenizer (tiktoken) is outside the repository: a text of  *)
(* k characters counts k tokens.  Prices are in units of 0.01 USD.          *)
(***************************************************************************)
Tokens(text) == Len(text)

InputTokenCost == 1

OutputTokenCost == 2

FlatCost(rate) == [isList |-> FALSE, rate |-> rate, bands |-> <<>>]

ModelConfig ==
    [input_token_cost  |-> FlatCost(InputTokenCost),
     output_token_cost |-> FlatCost(OutputTokenCost)]

\* Fault: the upper bound of a range is excluded.
InBandExclusive(token_count, band) ==
    token_count >= band.lo /\ (band.hiNone \/ token_count < band.hi)

\* range[1] is None when hiNone.
InBand(token_count, band) ==
    token_count >= band.lo /\ (band.hiNone \/ token_count <= band.hi)

\* Fault: where ranges overlap, the last listed one sets the rate.
RECURSIVE BandCostLastListed(_, _)
BandCostLastListed(token_count, bands) ==
    IF bands = <<>> THEN 0
    ELSE IF \E k \in 2..Len(bands) : InBand(token_count, bands[k])
         THEN BandCostLastListed(token_count, Tail(bands))
         ELSE IF InBand(token_count, Head(bands))
              THEN Head(bands).cost * token_count
              ELSE 0

RECURSIVE BandCost(_, _)
BandCost(token_count, bands) ==
    IF bands = <<>> THEN 0
    ELSE IF InBand(token_count, Head(bands))
         THEN Head(bands).cost * token_count
         ELSE BandCost(token_count, Tail(bands))

\* Fault: the rate of the first range is applied whatever the count.
calculate_cost_first_range(token_count, token_cost) ==
    IF token_cost.isList
    THEN (IF token_cost.bands = <<>> THEN 0
          ELSE Head(token_cost.bands).cost * token_count)
    ELSE token_cost.rate * token_count

calculate_cost(token_count, token_cost) ==
    IF token_cost.isList THEN BandCost(token_count, token_cost.bands)
    ELSE token_cost.rate * token_count

NoMetrics ==
    [isNone |-> TRUE, input_tokens |-> 0, output_tokens |-> 0,
     total_tokens |-> 0, cost_usd |-> 0]

\* output_to_string: err is the exception it raises, if any.
output_to_string(output) ==
    CASE output.fr = "stop" -> [err |-> "none", text |-> output.content]
      [] output.fr = "tool_calls" ->
            IF output.tool_calls = <<>>
            THEN [err |-> "IndexError", text |-> None]   \* tool_calls[0]
            ELSE [err |-> "none", text |-> output.tool_calls[1].arguments]
      [] output.fr = "function_call" ->
            [err |-> "none", text |-> output.function_call.arguments]
      [] OTHER -> [err |-> "none", text |-> None]

\* chat_input is a str here (input_to_string returns it as it is).
input_to_string(input) == input

\* Fault: total_tokens repeats the output count.
MetricsWithoutInput(model_config, input_tokens, output_tokens) ==
    [isNone |-> FALSE, input_tokens |-> input_tokens,
     output_tokens |-> output_tokens, total_tokens |-> output_tokens,
     cost_usd |-> calculate_cost(input_tokens, model_config.input_token_cost)
                  + calculate_cost(output_tokens,
                                   model_config.output_token_cost)]

\* The cost calculations and the self.Metrics(...) both calculate_metrics_*
\* end with.
Metrics(model_config, input_tokens, output_tokens) ==
    LET input_cost  == calculate_cost(input_tokens,
                                      model_config.input_token_cost)
        output_cost == calculate_cost(output_tokens,
                                      model_config.output_token_cost)
        total_cost  == input_cost + output_cost
    IN  [isNone |-> FALSE,
         input_tokens  |-> input_tokens,
         output_tokens |-> output_tokens,
         total_tokens  |-> input_tokens + output_tokens,
         cost_usd      |-> total_cost]

\* model_config is self.config.models[model].
calculate_metrics_stream(input, output, model_config) ==
    LET out == output_to_string(output) IN
    IF out.err # "none" THEN [err |-> out.err, metrics |-> NoMetrics]
    ELSE IF out.text = None
    THEN [err |-> "TypeError", metrics |-> NoMetrics]    \* encode(None)
    ELSE LET input_tokens  == Tokens(input_to_string(input))
             output_tokens == Tokens(out.text)
         IN  [err |-> "none",
              metrics |-> Metrics(model_config, input_tokens, output_tokens)]

(***************************************************************************)
(* handle_response_stream / ahandle_response_stream: the elements yielded.  *)
(* An element is {**chunk, "chat_output": ..., "chat_output_stream": ...,   *)
(* "metrics": ...}.                                                         *)
(***************************************************************************)
Element(chunk, chat_output, chat_output_stream, metrics) ==
    [n |-> chunk.n, model |-> chunk.model, fr |-> chunk.fr,
     content |-> chunk.content, tool_calls |-> chunk.tool_calls,
     function_call |-> chunk.function_call,
     chat_output |-> chat_output, chat_output_stream |-> chat_output_stream,
     metrics |-> metrics]

\* The loop body's test: every chunk but a "stop" chunk is yielded.
YieldsInLoop(chunk) == chunk.fr # "stop"

\* Fault: metrics are attached to every element.
IntermediateElementWithMetrics(chunk) ==
    Element(chunk, "", IF Truthy(chunk.content) THEN chunk.content ELSE "",
            [NoMetrics EXCEPT !.isNone = FALSE])

IntermediateElement(chunk) ==
    Element(chunk, "", IF Truthy(chunk.content) THEN chunk.content ELSE "",
            NoMetrics)

\* The code after the loop: the final element, or the exception raised.
\* last is the loop variable chunk as the loop left it.
FinalStep(cls, request, chunks, last) ==
    IF ~SeqHas(chunks, LAMBDA c : Truthy(c.model))
    THEN \* next(...) raises StopIteration inside the generator
         [err |-> "RuntimeError", joinCalled |-> FALSE,
          element |-> IntermediateElement(last)]
    ELSE LET joined == join_chunks(cls, chunks) IN
         IF joined.err # "none"
         THEN [err |-> joined.err, joinCalled |-> TRUE,
               element |-> IntermediateElement(last)]
         ELSE IF joined.isNone
         THEN \* response, output_string = None
              [err |-> "TypeError", joinCalled |-> TRUE,
               element |-> IntermediateElement(last)]
         ELSE LET m == calculate_metrics_stream(request.chat_input, joined, ModelConfig) IN
              IF m.err # "none"
              THEN [err |-> m.err, joinCalled |-> TRUE,
                    element |-> IntermediateElement(last)]
              ELSE [err |-> "none", joinCalled |-> TRUE,
                    element |-> Element(last, joined.output, "", m.metrics)]

(***************************************************************************)
(* Non-streaming path.  A response is the ChatCompletion the adapter hands  *)
(* to handle_response_non_stream; usage counts of 0 stand for counts the    *)
(* response does not expose (getattr(..., None) or ...).                    *)
(***************************************************************************)
Completion(fr, content, tool_calls, function_call, usage_in, usage_out) ==
    [fr |-> fr, content |-> content, tool_calls |-> tool_calls,
     function_call |-> function_call,
     usage |-> [input_tokens |-> usage_in, output_tokens |-> usage_out]]

calculate_metrics_non_stream(input, output, model_config) ==
    LET out == output_to_string(output)
        needOut == output.usage.output_tokens = 0
    IN  IF needOut /\ out.err # "none"
        THEN [err |-> out.err, metrics |-> NoMetrics]
        ELSE IF needOut /\ out.text = None
        THEN [err |-> "TypeError", metrics |-> NoMetrics]   \* encode(None)
        ELSE LET input_tokens ==
                     IF output.usage.input_tokens # 0
                     THEN output.usage.input_tokens
                     ELSE Tokens(input_to_string(input))
                 output_tokens ==
                     IF ~needOut THEN output.usage.output_tokens
                     ELSE Tokens(out.text)
             IN  [err |-> "none",
                  metrics |-> Metrics(model_config, input_tokens,
                                      output_tokens)]

NoUsage == [input_tokens |-> 0, output_tokens |-> 0]

NoCompletion ==
    [fr |-> None, content |-> None, chat_output |-> None,
     chat_output_stream |-> "", usage |-> NoUsage, metrics |-> NoMetrics]

\* Fault: the output text is left out of the result.
ChatOutputEmpty(response) == ""

\* "chat_output": response.choices[0].message.content
ChatOutput(response) == response.content

\* The ChatCompletionLLMstudio returned, or the exception raised.
handle_response_non_stream(request, response) ==
    \* input = request.model
    LET m == calculate_metrics_non_stream(request.model, response,
                                          ModelConfig) IN
    IF m.err # "none" THEN [err |-> m.err, value |-> NoCompletion]
    ELSE IF response.content = None
    THEN \* chat_output: str rejects None
         [err |-> "ValidationError", value |-> NoCompletion]
    ELSE [err |-> "none",
          \* {**response.model_dump(), "chat_output": ..., "metrics": ...}
          value |-> [fr |-> response.fr, content |-> response.content,
                     chat_output |-> ChatOutput(response),
                     chat_output_stream |-> "", usage |-> response.usage,
                     metrics |-> m.metrics]]

(***************************************************************************)
(* Request validation.  Temperatures are whole units.                       *)
(***************************************************************************)
ClaudeTemperatureMin == 0

ClaudeTemperatureMax == 1

VertexTemperatureMin == 0

VertexTemperatureMax == 2

TemperatureMin(prov) ==
    IF prov = "anthropic" THEN ClaudeTemperatureMin ELSE VertexTemperatureMin

TemperatureMax(prov) ==
    IF prov = "anthropic" THEN ClaudeTemperatureMax ELSE VertexTemperatureMax

\* validate_request: AnthropicRequest(**request) / VertexAIRequest(**request).
\* "ok", or the pydantic ValidationError raised (model: str rejects None; a
\* parameter outside its Field(ge=, le=) range is rejected).
validate_request(prov, raw) ==
    IF raw.model = None THEN "ValidationError"
    ELSE IF raw.temperature < TemperatureMin(prov)
            \/ raw.temperature > TemperatureMax(prov)
    THEN "ValidationError"
    ELSE "ok"

\* self.config.models
ConfigModels == {RequestModel}

\* validate_model: TRUE when it returns, FALSE when it raises ProviderError.
validate_model(request) == request.model \in ConfigModels

ClassName(prov) ==
    CASE prov = "anthropic" -> "AnthropicProvider"
      [] prov = "vertexai"  -> "VertexAIProvider"
      [] prov = "openai"    -> "OpenAIProvider"
      [] prov = "azure"     -> "AzureProvider"
      [] OTHER              -> "MockProvider"

(***************************************************************************)
(* State.                                                                   *)
(***************************************************************************)
VARIABLES
    prov,       \* the adapter: "anthropic", "vertexai", "openai", "mock"
    mode,       \* "chat" or "achat"
    req,        \* the arguments of the call
    pc,         \* position in chat/achat
    attempts,   \* calls of generate_client / agenerate_client so far
    failures,   \* those that raised
    result,     \* what the caller of chat/achat has got
    events,     \* the upstream events of the response being streamed
    inq,        \* chunks the normalizer has still to yield
    perr,       \* the exception the normalizer raises after them
    chunks,     \* the handler's chunk buffer
    joined,     \* <<>>, or <<r>> with r what join_chunks gave
    delivered,  \* the elements the handler has yielded to the consumer
    hs,         \* the handler generator: "none", "running", "final", "done",
                \* "failed"
    herr,       \* the exception that ended it
    call,       \* the arguments of a call of one of the functions above
    ret         \* <<>>, or <<r>> with r what that call returned or raised

vars == <<prov, mode, req, pc, attempts, failures, result, events, inq, perr,
          chunks, joined, delivered, hs, herr, call, ret>>

callVars == <<call, ret>>

\* No function is being called on its own.
NoCall == [op |-> "none"]

chatVars == <<pc, attempts, failures, result>>

streamVars == <<events, inq, perr, chunks, joined, delivered, hs, herr>>

\* Bounds of the model.
MaxRetries == 2

MaxChatEvents == 2

MaxEvents == 3

SeqsUpTo(S, k) == UNION {[1..m -> S] : m \in 0..k}

TextChunk(text) == Chunk(RequestModel, "none", text, NoToolCalls, NoFunctionCall)

TerminalChunk(fr) == Chunk(RequestModel, fr, None, NoToolCalls, NoFunctionCall)

ToolChunk(frag) == Chunk(RequestModel, "none", None, <<frag>>, NoFunctionCall)

FunctionChunk(fc) == Chunk(RequestModel, "none", None, NoToolCalls, fc)

\* What an OpenAI-style upstream sends: text deltas, the role-only first
\* chunk (content ""), tool-call and function-call fragments, and a chunk
\* with a finish_reason.
PassThroughEvents ==
    {TextChunk("a"), TextChunk("b"), TextChunk(""),
     ToolChunk(Fragment(0, "call_f", "f", "")),
     ToolChunk(Fragment(0, None, None, "x")),
     FunctionChunk(FunctionCallDelta("f", "x"))}
    \cup {TerminalChunk(fr) : fr \in {"stop", "length", "tool_calls",
                                      "function_call", "content_filter"}}

\* What iter_content yields: a content delta with or without text, the two
\* stop events, any other event or a line json.loads rejects ("other"), and
\* bytes that are not UTF-8 ("undecodable").
AnthropicEvents ==
    {[kind |-> "content_block_delta", text |-> t] : t \in {"a", "b", None}}
    \cup {[kind |-> k, text |-> None] :
            k \in {"content_block_stop", "message_stop", "other",
                   "undecodable"}}

VertexPart(name, args) == [name |-> name, args |-> args]

VertexEvents ==
    {[kind |-> "text", text |-> t, parts |-> <<>>] : t \in {"a", "b", ""}}
    \cup {[kind |-> "functionCall", text |-> None, parts |-> ps] :
            ps \in {<<VertexPart("f", "x")>>,
                    <<VertexPart("f", "x"), VertexPart("g", "y")>>}}
    \cup {[kind |-> "malformed", text |-> None, parts |-> <<>>]}

EventsOf(p) ==
    CASE p = "anthropic" -> AnthropicEvents
      [] p = "vertexai"  -> VertexEvents
      [] OTHER           -> PassThroughEvents

ValidRequest ==
    [chat_input |-> "hey", model |-> RequestModel, is_stream |-> TRUE,
     retries |-> 0, temperature |-> 1]

NoResult == [kind |-> "none", err |-> "none", value |-> NoCompletion]

Raised(err) == [kind |-> "error", err |-> err, value |-> NoCompletion]

\* The state in which the handler generator has just been created over the
\* upstream response evs.
\* Fault: a new invocation goes on with the chunk buffer it finds.
StartStreamKeepingBuffer(evs) ==
    /\ events' = evs
    /\ inq' = ParseResponse(prov, evs).chunks
    /\ perr' = ParseResponse(prov, evs).err
    /\ chunks' = chunks
    /\ joined' = <<>>
    /\ delivered' = <<>>
    /\ hs' = "running"
    /\ herr' = "none"

StartStream(evs) ==
    /\ events' = evs
    /\ inq' = ParseResponse(prov, evs).chunks
    /\ perr' = ParseResponse(prov, evs).err
    /\ chunks' = <<>>
    /\ joined' = <<>>
    /\ delivered' = <<>>
    /\ hs' = "running"
    /\ herr' = "none"

(***************************************************************************)
(* The consumer drives the generator; one action per step of its body.      *)
(***************************************************************************)
\* Fault: the element is put in front of those already yielded.
EmitFront(out, element) == <<element>> \o out

\* yield
Emit(out, element) == Append(out, element)

\* One iteration of "for chunk in self._parse_response(...)".
ConsumeChunk ==
    /\ hs = "running"
    /\ inq # <<>>
    /\ LET chunk == Head(inq) IN
       /\ chunks' = Append(chunks, chunk)
       /\ inq' = Tail(inq)
       /\ delivered' = IF YieldsInLoop(chunk)
                       THEN Emit(delivered, IntermediateElement(chunk))
                       ELSE delivered
    /\ UNCHANGED <<callVars, prov, mode, req, chatVars, events, perr, joined, hs, herr>>

\* The normalizer raises while the loop asks it for the next chunk.
ParserRaises ==
    /\ hs = "running"
    /\ inq = <<>>
    /\ perr # "none"
    /\ hs' = "failed"
    /\ herr' = perr
    /\ UNCHANGED <<callVars, prov, mode, req, chatVars, events, inq, perr, chunks,
                   joined, delivered>>

\* The upstream is exhausted: join, metrics, the final yield.
Finalize ==
    /\ hs = "running"
    /\ inq = <<>>
    /\ perr = "none"
    /\ LET last == IF chunks = <<>> THEN TerminalChunk("none")
                   ELSE chunks[Len(chunks)]
           f == FinalStep(ClassName(prov), req, chunks, last)
       IN  /\ joined' = IF f.joinCalled
                        THEN <<join_chunks(ClassName(prov), chunks)>>
                        ELSE joined
           /\ IF f.err = "none"
              THEN /\ delivered' = Emit(delivered, f.element)
                   /\ hs' = "final"
                   /\ herr' = "none"
              ELSE /\ delivered' = delivered
                   /\ hs' = "failed"
                   /\ herr' = f.err
    /\ UNCHANGED <<callVars, prov, mode, req, chatVars, events, inq, perr, chunks>>

\* The consumer asks once more: the generator returns.
Close ==
    /\ hs = "final"
    /\ hs' = "done"
    /\ UNCHANGED <<callVars, prov, mode, req, chatVars, events, inq, perr, chunks,
                   joined, delivered, herr>>

StreamNext == ConsumeChunk \/ ParserRaises \/ Finalize \/ Close

(***************************************************************************)
(* SpecStream: handle_response_stream over every bounded upstream stream of *)
(* every adapter.                                                           *)
(***************************************************************************)
StreamProviders == {"anthropic", "vertexai", "openai", "mock"}

InitStream ==
    /\ prov \in StreamProviders
    /\ mode \in {"chat", "achat"}
    /\ req = ValidRequest
    /\ pc = "returned"
    /\ attempts = 1
    /\ failures = 0
    /\ result = [kind |-> "generator", err |-> "none", value |-> NoCompletion]
    /\ events \in SeqsUpTo(EventsOf(prov), MaxEvents)
    /\ inq = ParseResponse(prov, events).chunks
    /\ perr = ParseResponse(prov, events).err
    /\ chunks = <<>>
    /\ joined = <<>>
    /\ delivered = <<>>
    /\ hs = "running"
    /\ herr = "none"
    /\ call = NoCall
    /\ ret = <<>>

SpecStream == InitStream /\ [][StreamNext]_vars

(***************************************************************************)
(* chat / achat.                                                            *)
(***************************************************************************)
ChatProviders == {"anthropic", "vertexai"}

ChatModels == {RequestModel, "m2", None}

ChatTemperatures == {1, 2, 3}

\* Upstream responses of a non-streaming call.
NonStreamResponses ==
    {Completion("stop", "a", <<>>, NoFunctionCall, 0, 0),
     Completion("stop", "a", <<>>, NoFunctionCall, 3, 1),
     Completion("length", "a", <<>>, NoFunctionCall, 0, 0),
     Completion("tool_calls", None,
                <<[id |-> "call_f", name |-> "f", arguments |-> "x",
                   type |-> "function"]>>, NoFunctionCall, 0, 0)}

Init ==
    /\ prov \in ChatProviders
    /\ mode \in {"chat", "achat"}
    /\ req \in [chat_input : {"hey"}, model : ChatModels,
                is_stream : BOOLEAN, retries : -1..MaxRetries,
                temperature : ChatTemperatures]
    /\ pc = "start"
    /\ attempts = 0
    /\ failures = 0
    /\ result = NoResult
    /\ events = <<>>
    /\ inq = <<>>
    /\ perr = "none"
    /\ chunks = <<>>
    /\ joined = <<>>
    /\ delivered = <<>>
    /\ hs = "none"
    /\ herr = "none"
    /\ call = NoCall
    /\ ret = <<>>

\* Fault: the except clause is missing and the ValidationError propagates.
ValidationErrorPropagates == "ValidationError"

\* What "except ValidationError as e: raise ProviderError(str(e))" raises.
ValidationErrorSurfacesAs == "ProviderError"

\* try: request = self.validate_request(dict(...))
ValidateRequest ==
    /\ pc = "start"
    /\ IF validate_request(prov, req) = "ok"
       THEN /\ pc' = "validated"
            /\ result' = result
       ELSE /\ pc' = "raised"
            /\ result' = Raised(ValidationErrorSurfacesAs)
    /\ UNCHANGED <<callVars, prov, mode, req, attempts, failures, streamVars>>

\* Fault: the model check is left out.
ValidateModelSkipped ==
    /\ pc = "validated"
    /\ pc' = "loop"
    /\ UNCHANGED <<callVars, prov, mode, req, attempts, failures, result, streamVars>>

\* self.validate_model(request)
ValidateModel ==
    /\ pc = "validated"
    /\ IF validate_model(req)
       THEN /\ pc' = "loop"
            /\ result' = result
       ELSE /\ pc' = "raised"
            /\ result' = Raised("ProviderError")
    /\ UNCHANGED <<callVars, prov, mode, req, attempts, failures, streamVars>>

\* range(request.retries + 1) yields a first iteration.
LoopHasIteration(request) == request.retries + 1 > 0

\* The attempt's generate_client / agenerate_client raises; the except clause
\* of the loop body raises ProviderError out of chat.
SendFails ==
    /\ pc = "loop"
    /\ LoopHasIteration(req)
    /\ attempts' = attempts + 1
    /\ failures' = failures + 1
    /\ pc' = "raised"
    /\ result' = Raised("ProviderError")
    /\ UNCHANGED <<callVars, prov, mode, req, streamVars>>

\* The send succeeds and is_stream: the generator object is returned; none of
\* its body has run.
SendStream ==
    /\ pc = "loop"
    /\ LoopHasIteration(req)
    /\ req.is_stream
    /\ attempts' = attempts + 1
    /\ pc' = "returned"
    /\ result' = [kind |-> "generator", err |-> "none", value |-> NoCompletion]
    /\ \E evs \in SeqsUpTo(EventsOf(prov), MaxChatEvents) : StartStream(evs)
    /\ UNCHANGED <<callVars, prov, mode, req, failures>>

\* The send succeeds and not is_stream, in chat: handle_response_non_stream
\* runs inside the try.
SendNonStream ==
    /\ pc = "loop"
    /\ LoopHasIteration(req)
    /\ ~req.is_stream
    /\ mode = "chat"
    /\ attempts' = attempts + 1
    /\ \E response \in NonStreamResponses :
         LET r == handle_response_non_stream(req, response) IN
         IF r.err = "none"
         THEN /\ pc' = "returned"
              /\ result' = [kind |-> "completion", err |-> "none",
                            value |-> r.value]
         ELSE /\ pc' = "raised"
              /\ result' = Raised("ProviderError")
    /\ UNCHANGED <<callVars, prov, mode, req, failures, streamVars>>

\* The same in achat: the coroutine of ahandle_response_non_stream is
\* returned without being awaited.
SendNonStreamAsync ==
    /\ pc = "loop"
    /\ LoopHasIteration(req)
    /\ ~req.is_stream
    /\ mode = "achat"
    /\ attempts' = attempts + 1
    /\ pc' = "returned"
    /\ result' = [kind |-> "coroutine", err |-> "none", value |-> NoCompletion]
    /\ UNCHANGED <<callVars, prov, mode, req, failures, streamVars>>

\* The caller awaits that coroutine: ProviderCore.ahandle_response_non_stream
\* raises NotImplementedError.
AwaitCoroutine ==
    /\ pc = "returned"
    /\ result.kind = "coroutine"
    /\ pc' = "awaited"
    /\ result' = Raised("NotImplementedError")
    /\ UNCHANGED <<callVars, prov, mode, req, attempts, failures, streamVars>>

\* The loop ends without an iteration having returned or raised.
LoopExhausted ==
    /\ pc = "loop"
    /\ ~LoopHasIteration(req)
    /\ pc' = "raised"
    /\ result' = Raised("ProviderError")     \* "Too many requests"
    /\ UNCHANGED <<callVars, prov, mode, req, attempts, failures, streamVars>>

ChatNext ==
    \/ ValidateRequest
    \/ ValidateModel
    \/ SendFails
    \/ SendStream
    \/ SendNonStream
    \/ SendNonStreamAsync
    \/ AwaitCoroutine
    \/ LoopExhausted

Next == ChatNext \/ StreamNext

Spec == Init /\ [][Next]_vars

(***************************************************************************)
(* SpecJoin: join_chunks applied, up to MaxJoinCalls times, to every        *)
(* bounded chunk list of tool-call fragments, of function-call fragments or *)
(* of text deltas, followed by a chunk with a finish_reason.                *)
(***************************************************************************)
MaxJoinChunks == 4

MaxJoinCalls == 2

\* Fragments as the upstreams send them: the first fragment of a call has its
\* id and name and empty arguments, the following ones only arguments; and a
\* call whose id and name come in two fragments.
JoinFragments ==
    {Fragment(0, "call_f", "f", ""), Fragment(1, "call_g", "g", "")}
    \cup {Fragment(i, None, None, a) : i \in {0, 1}, a \in {"x", "y"}}
    \cup {Fragment(0, "call_f", None, ""), Fragment(0, None, "f", "")}

JoinEvents ==
    {ToolChunk(frag) : frag \in JoinFragments} \cup {VertexFirstChunk}

\* Function-call fragments as OpenAI streams them and as the legacy Vertex
\* normalizer yields them: the name with empty arguments, then arguments
\* without a name.
JoinFunctionEvents ==
    {FunctionChunk(FunctionCallDelta("f", "")),
     FunctionChunk(FunctionCallDelta(None, "x")),
     FunctionChunk(FunctionCallDelta(None, "y")),
     VertexFirstChunk}

\* Text deltas: content, the role-only leading chunk (content ""), and a
\* chunk without content.
JoinTextEvents == {TextChunk("a"), TextChunk("b"), TextChunk(""), VertexFirstChunk}

JoinTerminals == {"tool_calls", "function_call", "stop", "content_filter"}

InitJoin ==
    /\ \/ /\ prov = "mock"
          /\ \E body \in SeqsUpTo(JoinEvents, MaxJoinChunks),
                fr \in JoinTerminals :
                chunks = Numbered(body \o <<TerminalChunk(fr)>>)
       \/ /\ prov = "mock"
          /\ \E body \in SeqsUpTo(JoinFunctionEvents, MaxJoinChunks) :
                chunks = Numbered(body \o <<TerminalChunk("function_call")>>)
       \/ /\ prov \in {"openai", "azure", "anthropic", "mock"}
          /\ \E body \in SeqsUpTo(JoinTextEvents, MaxJoinChunks),
                fr \in {"stop", "length", "content_filter"} :
                chunks = Numbered(body \o <<TerminalChunk(fr)>>)
    /\ mode = "chat"
    /\ req = ValidRequest
    /\ pc = "returned"
    /\ attempts = 1
    /\ failures = 0
    /\ result = [kind |-> "generator", err |-> "none", value |-> NoCompletion]
    /\ events = <<>>
    /\ inq = <<>>
    /\ perr = "none"
    /\ joined = <<>>
    /\ delivered = <<>>
    /\ hs = "none"
    /\ herr = "none"
    /\ call = NoCall
    /\ ret = <<>>

\* response, output_string = self.join_chunks(chunks), applied up to
\* MaxJoinCalls times to the same list.
Join ==
    /\ Len(joined) < MaxJoinCalls
    /\ joined' = Append(joined, join_chunks(ClassName(prov), chunks))
    /\ chunks' = ChunksAfterJoin(chunks)
    /\ UNCHANGED <<callVars, prov, mode, req, chatVars, events, inq, perr,
                   delivered, hs, herr>>

SpecJoin == InitJoin /\ [][Join]_vars

(***************************************************************************)
(* The legacy OpenAI provider (LLMEngine/providers/openai.py).  pricing is  *)
(* OPENAI_PRICING_DICT[model_name], a pair of flat rates.                   *)
(***************************************************************************)
get_tokens(chat_input) == Tokens(chat_input)

get_cost(input_tokens, output_tokens, pricing) ==
    pricing.input_tokens * input_tokens + pricing.output_tokens * output_tokens

\* The dict OpenAIProvider.chat returns for a non-streaming call.
LegacyChatData(chat_input, content, pricing) ==
    LET input_tokens  == get_tokens(chat_input)
        output_tokens == get_tokens(content)
    IN  [chatOutput |-> content,
         inputTokens |-> input_tokens,
         outputTokens |-> output_tokens,
         totalTokens |-> input_tokens + output_tokens,
         cost |-> get_cost(input_tokens, output_tokens, pricing)]

(***************************************************************************)
(* SpecMetrics: calculate_cost over every bounded price list and token      *)
(* count, and the metrics calculations over bounded inputs, outputs and     *)
(* model configurations.                                                    *)
(***************************************************************************)
MaxTokens == 4

MaxRate == 2

Band(lo, hi, cost) == [lo |-> lo, hi |-> hi, hiNone |-> FALSE, cost |-> cost]

\* range: [lo, None]
BandFrom(lo, cost) == [lo |-> lo, hi |-> 0, hiNone |-> TRUE, cost |-> cost]

BandedCost(bands) == [isList |-> TRUE, rate |-> 0, bands |-> bands]

Rates == 0..MaxRate

\* One or two ranges, the last one open; the first starts at 0 or leaves
\* count 0 out; the second starts right after the first, one count later
\* (a gap) or one count earlier (an overlap).
PriceLists ==
    {FlatCost(r) : r \in Rates}
    \cup {BandedCost(<<BandFrom(lo, r)>>) : lo \in {0, 1}, r \in Rates}
    \cup {BandedCost(<<Band(lo, cut - 1, r1), BandFrom(cut + g, r2)>>) :
            lo \in {0, 1}, cut \in 2..MaxTokens, g \in {-1, 0, 1},
            r1 \in Rates, r2 \in Rates}

MetricsConfigs ==
    [input_token_cost : PriceLists,
     output_token_cost : {FlatCost(OutputTokenCost),
                          BandedCost(<<Band(0, 1, 2), BandFrom(2, 1)>>)}]

MetricsInputs == {"", "a", "hey"}

MetricsOutputs ==
    {Completion("stop", c, <<>>, NoFunctionCall, u, v) :
        c \in {"", "ab"}, u \in {0, MaxTokens}, v \in {0, 1}}
    \cup {Completion("tool_calls", None,
                     <<[id |-> "call_f", name |-> "f", arguments |-> "x",
                        type |-> "function"]>>, NoFunctionCall, 0, 0),
          Completion("length", "ab", <<>>, NoFunctionCall, 0, 0)}

LegacyPricings == [input_tokens : Rates, output_tokens : Rates]

InitMetrics ==
    /\ prov = "mock"
    /\ mode = "chat"
    /\ req = ValidRequest
    /\ pc = "returned"
    /\ attempts = 1
    /\ failures = 0
    /\ result = NoResult
    /\ events = <<>>
    /\ inq = <<>>
    /\ perr = "none"
    /\ chunks = <<>>
    /\ joined = <<>>
    /\ delivered = <<>>
    /\ hs = "none"
    /\ herr = "none"
    /\ \/ \E pl \in PriceLists :
            call = [op |-> "calculate_cost", token_cost |-> pl]
       \/ \E op \in {"calculate_metrics_stream", "calculate_metrics_non_stream"},
             i \in MetricsInputs, o \in MetricsOutputs, mc \in MetricsConfigs :
            call = [op |-> op, input |-> i, output |-> o, model_config |-> mc]
       \/ \E i \in MetricsInputs, c \in {"", "ab"}, pr \in LegacyPricings :
            call = [op |-> "legacy_chat", chat_input |-> i, content |-> c,
                    pricing |-> pr]
    /\ ret = <<>>

metricsFrame ==
    <<prov, mode, req, chatVars, streamVars, call>>

\* calculate_cost for the next token count: ret[k] is the cost of k - 1 tokens.
CalculateCost ==
    /\ call.op = "calculate_cost"
    /\ Len(ret) <= MaxTokens
    /\ ret' = Append(ret, calculate_cost(Len(ret), call.token_cost))
    /\ UNCHANGED metricsFrame

CalculateMetricsStream ==
    /\ call.op = "calculate_metrics_stream"
    /\ ret = <<>>
    /\ ret' = <<calculate_metrics_stream(call.input, call.output,
                                         call.model_config)>>
    /\ UNCHANGED metricsFrame

CalculateMetricsNonStream ==
    /\ call.op = "calculate_metrics_non_stream"
    /\ ret = <<>>
    /\ ret' = <<calculate_metrics_non_stream(call.input, call.output,
                                             call.model_config)>>
    /\ UNCHANGED metricsFrame

LegacyChat ==
    /\ call.op = "legacy_chat"
    /\ ret = <<>>
    /\ ret' = <<LegacyChatData(call.chat_input, call.content, call.pricing)>>
    /\ UNCHANGED metricsFrame

MetricsNext ==
    \/ CalculateCost
    \/ CalculateMetricsStream
    \/ CalculateMetricsNonStream
    \/ LegacyChat

SpecMetrics == InitMetrics /\ [][MetricsNext]_vars

(***************************************************************************)
(* SpecValidate: the range-checked fields of the parameter classes, each    *)
(* constructed with values at and beside its bounds.  Values are whole      *)
(* units.                                                                   *)
(***************************************************************************)
OpenAITemperatureMin == 0

OpenAITemperatureMax == 2

\* name: Optional[...] = Field(ge=ge, le=le); hasLe is FALSE without le=.
Field(cls, name, ge, hasLe, le) ==
    [cls |-> cls, name |-> name, ge |-> ge, hasLe |-> hasLe, le |-> le]

ClaudeParameters ==
    {Field("ClaudeParameters", "temperature", ClaudeTemperatureMin, TRUE,
           ClaudeTemperatureMax),
     Field("ClaudeParameters", "max_tokens", 1, FALSE, 0),
     Field("ClaudeParameters", "top_p", 0, TRUE, 1),
     Field("ClaudeParameters", "top_k", 0, TRUE, 500)}

VertexParameters ==
    {Field("VertexParameters", "top_p", 0, TRUE, 1),
     Field("VertexParameters", "top_k", 0, TRUE, 1),
     Field("VertexParameters", "temperature", VertexTemperatureMin, TRUE,
           VertexTemperatureMax),
     Field("VertexParameters", "max_output_tokens", 0, TRUE, 8192),
     Field("VertexParameters", "frequency_penalty", 0, TRUE, 1),
     Field("VertexParameters", "presence_penalty", 0, TRUE, 1)}

OpenAIParameters ==
    {Field("OpenAIParameters", "temperature", OpenAITemperatureMin, TRUE,
           OpenAITemperatureMax),
     Field("OpenAIParameters", "max_tokens", 1, TRUE, 2048),
     Field("OpenAIParameters", "top_p", 0, TRUE, 1),
     Field("OpenAIParameters", "frequency_penalty", 0, TRUE, 1),
     Field("OpenAIParameters", "presence_penalty", 0, TRUE, 1)}

ParameterFields == ClaudeParameters \cup VertexParameters \cup OpenAIParameters

\* A value given for a field: None, or the number v.
Given(v) == [isNone |-> FALSE, v |-> v]

NotGiven == [isNone |-> TRUE, v |-> 0]

Accepted(value) == [err |-> "none", value |-> value]

Rejected == [err |-> "ValidationError", value |-> NotGiven]

\* Fault: a value outside the range is moved to the nearest bound.
validate_field_clamped(field, value) ==
    IF value.isNone THEN Accepted(value)
    ELSE IF value.v < field.ge THEN Accepted(Given(field.ge))
    ELSE IF field.hasLe /\ value.v > field.le THEN Accepted(Given(field.le))
    ELSE Accepted(value)

\* What pydantic does with one field of the parameter class: the value is
\* kept as given, or the construction raises ValidationError.
validate_field(field, value) ==
    IF value.isNone THEN Accepted(value)                 \* Optional[...]
    ELSE IF value.v < field.ge THEN Rejected             \* ge=
    ELSE IF field.hasLe /\ value.v > field.le THEN Rejected   \* le=
    ELSE Accepted(value)

\* How far beside a bound the values tried lie.
MaxBeyond == 1

ValuesFor(field) ==
    {NotGiven}
    \cup {Given(field.ge + d) : d \in (-MaxBeyond)..MaxBeyond}
    \cup (IF field.hasLe
          THEN {Given(field.le + d) : d \in (-MaxBeyond)..MaxBeyond}
          ELSE {})

InitValidate ==
    /\ prov = "mock"
    /\ mode = "chat"
    /\ req = ValidRequest
    /\ pc = "start"
    /\ attempts = 0
    /\ failures = 0
    /\ result = NoResult
    /\ events = <<>>
    /\ inq = <<>>
    /\ perr = "none"
    /\ chunks = <<>>
    /\ joined = <<>>
    /\ delivered = <<>>
    /\ hs = "none"
    /\ herr = "none"
    /\ \E field \in ParameterFields :
         \E value \in ValuesFor(field) :
           call = [op |-> "validate_field", field |-> field, value |-> value]
    /\ ret = <<>>

\* ClaudeParameters(**parameters) and the like, for one field.
ValidateField ==
    /\ call.op = "validate_field"
    /\ ret = <<>>
    /\ ret' = <<validate_field(call.field, call.value)>>
    /\ UNCHANGED metricsFrame

SpecValidate == InitValidate /\ [][ValidateField]_vars

(***************************************************************************)
(* SpecBedrock: BedrockProvider.generate_client over bounded model ids.  A  *)
(* model id is a sequence of pieces, "." among them: <<"anthropic", ".",    *)
(* "claude">> is "anthropic.claude".                                        *)
(***************************************************************************)
MaxIdPieces == 3

ModelIdPieces == {"anthropic", "meta", "claude", "."}

ModelIds == SeqsUpTo(ModelIdPieces, MaxIdPieces)

\* "anthropic." in model
ContainsAnthropicDot(model) ==
    \E i \in 1..(Len(model) - 1) : model[i] = "anthropic" /\ model[i + 1] = "."

\* The text pieces of the exception message: f" provider is not yet
\* supported." has no replacement field.
UnsupportedMessage(model) == <<" provider is not yet supported.">>

\* The sub-adapter returned, or the ValueError raised.
get_provider(model) ==
    IF ContainsAnthropicDot(model)
    THEN [err |-> "none", provider |-> "BedrockAntropicProvider",
          message |-> <<>>]
    ELSE [err |-> "ValueError", provider |-> None,
          message |-> UnsupportedMessage(model)]

\* BedrockProvider.generate_client: selected_model as it leaves it (None is
\* the value __init__ gave it), and sends, the calls of the sub-adapter's
\* generate_client.
generate_client(model) ==
    LET p == get_provider(model) IN
    IF p.err # "none"
    THEN [err |-> p.err, message |-> p.message, selected_model |-> None,
          sends |-> 0]
    ELSE [err |-> "none", message |-> <<>>, selected_model |-> p.provider,
          sends |-> 1]

InitBedrock ==
    /\ prov = "bedrock"
    /\ mode = "chat"
    /\ req = ValidRequest
    /\ pc = "loop"
    /\ attempts = 0
    /\ failures = 0
    /\ result = NoResult
    /\ events = <<>>
    /\ inq = <<>>
    /\ perr = "none"
    /\ chunks = <<>>
    /\ joined = <<>>
    /\ delivered = <<>>
    /\ hs = "none"
    /\ herr = "none"
    /\ \E model \in ModelIds : call = [op |-> "generate_client", model |-> model]
    /\ ret = <<>>

GenerateClient ==
    /\ call.op = "generate_client"
    /\ ret = <<>>
    /\ ret' = <<generate_client(call.model)>>
    /\ UNCHANGED metricsFrame

SpecBedrock == InitBedrock /\ [][GenerateClient]_vars

(***************************************************************************)
(* SpecLatency: the timing locals of handle_response_stream and the latency *)
(* part of calculate_metrics_stream.  time.time() is an integer clock that  *)
(* starts positive and may stand still between two readings; the chunks are *)
(* taken to be ones join_chunks accepts.  A float quotient a / b is kept as *)
(* the pair Ratio(a, b).                                                    *)
(***************************************************************************)
MaxClock == 4

MaxArrivals == 3

NoTime == [isNone |-> TRUE, t |-> 0]

Time(t) == [isNone |-> FALSE, t |-> t]

Ratio(num, den) == [num |-> num, den |-> den]

RECURSIVE SumSeq(_)
SumSeq(s) == IF s = <<>> THEN 0 ELSE Head(s) + SumSeq(Tail(s))

\* Fault: a gap is recorded for the first chunk too, measured from the start.
RecordArrivalWithFirstGap(locals, current_time) ==
    [locals EXCEPT
       !.token_count = @ + 1,
       !.first_token_time =
           IF locals.first_token_time.isNone \/ locals.first_token_time.t = 0
           THEN Time(current_time) ELSE @,
       !.token_times =
           Append(@, current_time
                       - (IF locals.previous_token_time.isNone
                          THEN locals.start_time
                          ELSE locals.previous_token_time.t)),
       !.previous_token_time = Time(current_time)]

\* The loop body up to chunks.append(chunk).  "first_token_time or
\* current_time" replaces a first_token_time that is None or 0.
RecordArrival(locals, current_time) ==
    [locals EXCEPT
       !.token_count = @ + 1,
       !.first_token_time =
           IF locals.first_token_time.isNone \/ locals.first_token_time.t = 0
           THEN Time(current_time) ELSE @,
       !.token_times =
           IF locals.previous_token_time.isNone THEN @
           ELSE Append(@, current_time - locals.previous_token_time.t),
       !.previous_token_time = Time(current_time)]

\* The latency calculations of calculate_metrics_stream.
LatencyMetrics(start_time, end_time, first_token_time, token_times, token_count) ==
    LET total_time == end_time - start_time IN
    [err |-> "none",
     total_time |-> total_time,
     time_to_first_token |-> first_token_time - start_time,
     inter_token_latency |->
         IF token_times # <<>>
         THEN Ratio(SumSeq(token_times), Len(token_times)) ELSE Ratio(0, 1),
     tokens_per_second |->
         IF total_time > 0 THEN Ratio(token_count, total_time)
         ELSE Ratio(0, 1)]

\* start_time = time.time() and the locals before the loop.  arrivals is the
\* history of the clock readings in the loop.
InitLatency ==
    /\ prov = "mock"
    /\ mode = "chat"
    /\ req = ValidRequest
    /\ pc = "returned"
    /\ attempts = 1
    /\ failures = 0
    /\ result = [kind |-> "generator", err |-> "none", value |-> NoCompletion]
    /\ events = <<>>
    /\ inq = <<>>
    /\ perr = "none"
    /\ chunks = <<>>
    /\ joined = <<>>
    /\ delivered = <<>>
    /\ hs = "running"
    /\ herr = "none"
    /\ call = [op |-> "handle_response_stream", clock |-> 1, start_time |-> 1,
               first_token_time |-> NoTime, previous_token_time |-> NoTime,
               token_times |-> <<>>, token_count |-> 0, arrivals |-> <<>>]
    /\ ret = <<>>

latencyFrame == <<prov, mode, req, chatVars, streamVars>>

\* Time passes between two readings of the clock.
Tick ==
    /\ call.op = "handle_response_stream"
    /\ ret = <<>>
    /\ call.clock < MaxClock
    /\ call' = [call EXCEPT !.clock = @ + 1]
    /\ UNCHANGED <<ret, latencyFrame>>

\* One iteration of "for chunk in self._parse_response(...)".
Arrive ==
    /\ call.op = "handle_response_stream"
    /\ ret = <<>>
    /\ call.token_count < MaxArrivals
    /\ call' = [RecordArrival(call, call.clock) EXCEPT
                  !.arrivals = Append(@, call.clock)]
    /\ UNCHANGED <<ret, latencyFrame>>

\* The code after the loop: without a chunk next(...) raises inside the
\* generator; otherwise the metrics are calculated with end_time = time.time().
FinishStream ==
    /\ call.op = "handle_response_stream"
    /\ ret = <<>>
    /\ ret' = <<IF call.token_count = 0
                THEN [LatencyMetrics(0, 0, 0, <<>>, 0) EXCEPT
                        !.err = "RuntimeError"]
                ELSE LatencyMetrics(call.start_time, call.clock,
                                    call.first_token_time.t,
                                    call.token_times, call.token_count)>>
    /\ UNCHANGED <<call, latencyFrame>>

SpecLatency == InitLatency /\ [][Tick \/ Arrive \/ FinishStream]_vars

(***************************************************************************)
(* SpecServe: one upstream response handed to both handlers, once whole     *)
(* (handle_response_non_stream) and once as the chunks an OpenAI-style      *)
(* upstream streams for it (handle_response_stream after its loop).         *)
(***************************************************************************)
MaxPieces == 3

\* The chunks of a response: the role-only first chunk, then one chunk per
\* text piece, or per tool call its head fragment and its arguments, or the
\* function call's name and its arguments, then the finish_reason.
UpstreamStream(fr, pieces, calls, function_call) ==
    <<TextChunk("")>>
    \o SeqMap(LAMBDA p : TextChunk(p), pieces)
    \o [k \in 1..(2 * Len(calls)) |->
          IF k % 2 = 1
          THEN ToolChunk(Fragment((k - 1) \div 2, calls[(k + 1) \div 2].id,
                                  calls[(k + 1) \div 2].name, ""))
          ELSE ToolChunk(Fragment((k - 1) \div 2, None, None,
                                  calls[k \div 2].arguments))]
    \o (IF function_call.isNone THEN <<>>
        ELSE <<FunctionChunk(FunctionCallDelta(function_call.name, "")),
               FunctionChunk(FunctionCallDelta(None,
                                               function_call.arguments))>>)
    \o <<TerminalChunk(fr)>>

InitServe ==
    /\ prov = "openai"
    /\ mode = "chat"
    /\ req = ValidRequest
    /\ pc = "loop"
    /\ attempts = 0
    /\ failures = 0
    /\ result = NoResult
    /\ events = <<>>
    /\ inq = <<>>
    /\ perr = "none"
    /\ chunks = <<>>
    /\ joined = <<>>
    /\ delivered = <<>>
    /\ hs = "none"
    /\ herr = "none"
    /\ \/ \E pieces \in SeqsUpTo({"a", "b"}, MaxPieces),
             fr \in {"stop", "length"} :
            /\ pieces # <<>>
            /\ call = [op |-> "serve",
                       response |-> Completion(fr, ConcatAll(pieces), <<>>,
                                               NoFunctionCall, 0, 0),
                       stream |-> Numbered(UpstreamStream(
                                     fr, pieces, <<>>, NoFunctionCall))]
       \/ \E calls \in SeqsUpTo(
                 {[id |-> "call_" \o n, name |-> n, arguments |-> a,
                   type |-> "function"] : n \in {"f", "g"}, a \in {"x", "y"}},
                 MaxPieces - 1) :
            /\ calls # <<>>
            /\ call = [op |-> "serve",
                       response |-> Completion("tool_calls", None, calls,
                                               NoFunctionCall, 0, 0),
                       stream |-> Numbered(UpstreamStream(
                                     "tool_calls", <<>>, calls,
                                     NoFunctionCall))]
       \/ \E a \in {"x", "y", "xy"} :
            /\ call = [op |-> "serve",
                       response |-> Completion("function_call", None, <<>>,
                                               FunctionCallDelta("f", a),
                                               0, 0),
                       stream |-> Numbered(UpstreamStream(
                                     "function_call", <<>>, <<>>,
                                     FunctionCallDelta("f", a)))]
    /\ ret = <<>>

Served(path) == \E i \in 1..Len(ret) : ret[i].path = path

\* chat with is_stream false: the whole response goes through
\* handle_response_non_stream.
ServeNonStream ==
    /\ call.op = "serve"
    /\ ~Served("non_stream")
    /\ LET r == handle_response_non_stream(req, call.response) IN
       ret' = Append(ret, [path |-> "non_stream", err |-> r.err,
                           fr |-> r.value.fr,
                           chat_output |-> r.value.chat_output])
    /\ UNCHANGED <<call, prov, mode, req, chatVars, streamVars>>

\* chat with is_stream true, consumed to the end: the last element of
\* handle_response_stream.
ServeStream ==
    /\ call.op = "serve"
    /\ ~Served("stream")
    /\ LET f == FinalStep(ClassName(prov), req, call.stream,
                          call.stream[Len(call.stream)]) IN
       ret' = Append(ret, [path |-> "stream", err |-> f.err,
                           fr |-> f.element.fr,
                           chat_output |-> f.element.chat_output])
    /\ UNCHANGED <<call, prov, mode, req, chatVars, streamVars>>

SpecServe == InitServe /\ [][ServeNonStream \/ ServeStream]_vars

(***************************************************************************)
(* SpecNormalize: the two Vertex normalizers applied to one upstream event: *)
(* a text part, up to MaxParts function-call parts, an event with neither,  *)
(* or an event that cannot be read.                                         *)
(***************************************************************************)
MaxParts == 3

InitNormalize ==
    /\ prov \in {"vertexai", "vertex"}
    /\ mode = "chat"
    /\ req = ValidRequest
    /\ pc = "returned"
    /\ attempts = 1
    /\ failures = 0
    /\ result = [kind |-> "generator", err |-> "none", value |-> NoCompletion]
    /\ events = <<>>
    /\ inq = <<>>
    /\ perr = "none"
    /\ chunks = <<>>
    /\ joined = <<>>
    /\ delivered = <<>>
    /\ hs = "none"
    /\ herr = "none"
    /\ \/ \E t \in {"a", "b", "ab", ""} :
            call = [op |-> "parse_response",
                    event |-> [kind |-> "text", text |-> t, parts |-> <<>>]]
       \/ \E ps \in SeqsUpTo({VertexPart(n, a) : n \in {"f", "g"},
                                                  a \in {"x", "y"}},
                              MaxParts) :
            /\ ps # <<>>
            /\ call = [op |-> "parse_response",
                       event |-> [kind |-> "functionCall", text |-> None,
                                  parts |-> ps]]
       \/ call = [op |-> "parse_response",
                  event |-> [kind |-> "malformed", text |-> None,
                             parts |-> <<>>]]
    /\ ret = <<>>

\* One turn of "for chunk in response" in parse_response.
Normalize ==
    /\ call.op = "parse_response"
    /\ ret = <<>>
    /\ ret' = <<ParseEvent(prov, call.event)>>
    /\ UNCHANGED <<call, prov, mode, req, chatVars, streamVars>>

SpecNormalize == InitNormalize /\ [][Normalize]_vars

(***************************************************************************)
(* SpecRetry: a consumer that gives up a stream it has partly read and      *)
(* calls chat again; each call that gets a response invokes                 *)
(* handle_response_stream anew.                                             *)
(***************************************************************************)
MaxAttempts == 2

\* The generator in use is dropped with chunks in its buffer, and the next
\* call of chat returns a new one for a new upstream stream.
Abandon ==
    /\ hs = "running"
    /\ chunks # <<>>
    /\ attempts < MaxAttempts
    /\ attempts' = attempts + 1
    /\ \E evs \in SeqsUpTo(EventsOf(prov), MaxChatEvents) : StartStream(evs)
    /\ UNCHANGED <<callVars, prov, mode, req, pc, failures, result>>

SpecRetry == InitStream /\ [][StreamNext \/ Abandon]_vars

(***************************************************************************)
(* SpecConcurrent: two requests on one BedrockProvider instance.  Their     *)
(* steps interleave freely: threads, or one thread that sends the second    *)
(* request before it has iterated the first one's stream.  selected_model   *)
(* is the instance attribute; owner tells which request's generate_client   *)
(* created the sub-adapter it holds, parsedBy whose sub-adapter parsed each *)
(* request's response.                                                      *)
(***************************************************************************)
InitConcurrent ==
    /\ prov = "bedrock"
    /\ mode = "chat"
    /\ req = ValidRequest
    /\ pc = "loop"
    /\ attempts = 0
    /\ failures = 0
    /\ result = NoResult
    /\ events = <<>>
    /\ inq = <<>>
    /\ perr = "none"
    /\ chunks = <<>>
    /\ joined = <<>>
    /\ delivered = <<>>
    /\ hs = "none"
    /\ herr = "none"
    /\ \E first \in ModelIds,
          second \in {<<"anthropic", ".", "claude">>, <<"meta", ".">>} :
         call = [op |-> "concurrent",
                 models |-> <<first, second>>,
                 selected_model |-> [cls |-> None, owner |-> 0],
                 pcs |-> <<"start", "start">>,
                 parsedBy |-> <<0, 0>>]
    /\ ret = <<>>

\* generate_client for request r: self.selected_model = self._get_provider(...)
SendRequest(r) ==
    /\ call.op = "concurrent"
    /\ call.pcs[r] = "start"
    /\ LET g == generate_client(call.models[r]) IN
       call' = IF g.err # "none"
               THEN [call EXCEPT !.pcs[r] = "raised"]
               ELSE [call EXCEPT !.pcs[r] = "sent",
                                 !.selected_model =
                                     [cls |-> g.selected_model, owner |-> r]]
    /\ UNCHANGED <<ret, prov, mode, req, chatVars, streamVars>>

\* parse_response for request r's response: self.selected_model.parse_response
ParseRequest(r) ==
    /\ call.op = "concurrent"
    /\ call.pcs[r] = "sent"
    /\ call' = [call EXCEPT !.pcs[r] = "parsed",
                            !.parsedBy[r] = call.selected_model.owner]
    /\ UNCHANGED <<ret, prov, mode, req, chatVars, streamVars>>

SpecConcurrent ==
    InitConcurrent /\ [][\E r \in {1, 2} : SendRequest(r) \/ ParseRequest(r)]_vars

(***************************************************************************)
(* SpecLegacy: generate_stream_response of the two legacy providers         *)
(* (LLMEngine/providers/bedrock.py and openai.py), driven by a consumer     *)
(* over every bounded upstream sequence.  A Bedrock event has a chunk with  *)
(* its content or has none; an OpenAI chunk is a Chunk, its delta content   *)
(* absent when content is None.  chat_output is the generator's local,      *)
(* delivered what it has yielded.                                           *)
(***************************************************************************)
MaxLegacyEvents == 3

\* f"{END_TOKEN},{input_tokens},{output_tokens},{cost}"
EndMarker(input_tokens, output_tokens, cost) ==
    [marker |-> TRUE, text |-> "", input_tokens |-> input_tokens,
     output_tokens |-> output_tokens, cost |-> cost]

InitLegacy ==
    /\ mode = "chat"
    /\ req = ValidRequest
    /\ pc = "returned"
    /\ attempts = 1
    /\ failures = 0
    /\ result = [kind |-> "generator", err |-> "none", value |-> NoCompletion]
    /\ \/ /\ prov = "bedrock"
          /\ events \in SeqsUpTo(
                 {[hasChunk |-> TRUE, content |-> c] : c \in {"a", "b", ""}}
                 \cup {[hasChunk |-> FALSE, content |-> None]},
                 MaxLegacyEvents)
       \/ /\ prov = "openai"
          /\ events \in SeqsUpTo(
                 {TextChunk("a"), TextChunk("b"), TextChunk(""),
                  TerminalChunk("stop"), TerminalChunk("length"),
                  TerminalChunk("content_filter")},
                 MaxLegacyEvents)
    /\ inq = events
    /\ perr = "none"
    /\ chunks = <<>>
    /\ joined = <<>>
    /\ delivered = <<>>
    /\ hs = "running"
    /\ herr = "none"
    /\ \E pricing \in LegacyPricings :
         call = [op |-> "generate_stream_response", chat_output |-> "",
                 chat_input |-> req.chat_input, pricing |-> pricing]
    /\ ret = <<>>

\* bedrock.py: one iteration of "for event in response".
BedrockStreamStep ==
    /\ prov = "bedrock"
    /\ hs = "running"
    /\ inq # <<>>
    /\ inq' = Tail(inq)
    /\ IF Head(inq).hasChunk
       THEN /\ call' = [call EXCEPT !.chat_output = @ \o Head(inq).content]
            /\ delivered' = Emit(delivered,
                                 [marker |-> FALSE, text |-> Head(inq).content,
                                  input_tokens |-> 0, output_tokens |-> 0,
                                  cost |-> 0])
       ELSE UNCHANGED <<call, delivered>>
    /\ UNCHANGED <<ret, prov, mode, req, chatVars, events, perr, chunks, joined,
                   hs, herr>>

\* Fault: the generator returns without the marker.
BedrockStreamEndSilent ==
    /\ prov = "bedrock"
    /\ hs = "running"
    /\ inq = <<>>
    /\ hs' = "done"
    /\ UNCHANGED <<ret, prov, mode, req, chatVars, events, perr, chunks, joined,
                   call, inq, delivered, herr>>

\* bedrock.py: after the loop, the marker with zeroes.
BedrockStreamEnd ==
    /\ prov = "bedrock"
    /\ hs = "running"
    /\ inq = <<>>
    /\ delivered' = Emit(delivered, EndMarker(0, 0, 0))
    /\ hs' = "done"
    /\ UNCHANGED <<ret, prov, mode, req, chatVars, events, perr, chunks, joined,
                   call, inq, herr>>

\* openai.py: one iteration of "for chunk in response".  A chunk whose
\* finish_reason is neither stop nor length has its delta content read with
\* ["content"]: KeyError when the delta has none.
OpenAIStreamStep ==
    /\ prov = "openai"
    /\ hs = "running"
    /\ inq # <<>>
    /\ inq' = Tail(inq)
    /\ LET chunk == Head(inq) IN
       IF chunk.fr \notin {"stop", "length"}
       THEN IF chunk.content = None
            THEN /\ hs' = "failed"
                 /\ herr' = "KeyError"
                 /\ UNCHANGED <<call, delivered>>
            ELSE /\ call' = [call EXCEPT !.chat_output = @ \o chunk.content]
                 /\ delivered' = Emit(delivered,
                                      [marker |-> FALSE, text |-> chunk.content,
                                       input_tokens |-> 0, output_tokens |-> 0,
                                       cost |-> 0])
                 /\ UNCHANGED <<hs, herr>>
       ELSE LET input_tokens  == get_tokens(call.chat_input)
                output_tokens == get_tokens(call.chat_output)
            IN  /\ delivered' = Emit(delivered,
                                     EndMarker(input_tokens, output_tokens,
                                               get_cost(input_tokens,
                                                        output_tokens,
                                                        call.pricing)))
                /\ UNCHANGED <<call, hs, herr>>
    /\ UNCHANGED <<ret, prov, mode, req, chatVars, events, perr, chunks, joined>>

\* openai.py: the loop is over and the generator returns.
OpenAIStreamEnd ==
    /\ prov = "openai"
    /\ hs = "running"
    /\ inq = <<>>
    /\ hs' = "done"
    /\ UNCHANGED <<ret, prov, mode, req, chatVars, events, perr, chunks, joined,
                   call, inq, delivered, herr>>

SpecLegacy ==
    InitLegacy
    /\ [][BedrockStreamStep \/ BedrockStreamEnd \/ OpenAIStreamStep
          \/ OpenAIStreamEnd]_vars

(***************************************************************************)
(* Properties.                                                              *)
(***************************************************************************)
KnownReasons == {"stop", "length", "tool_calls", "function_call"}

RequestRejected == validate_request(prov, req) # "ok"

ModelUnsupported == req.model \notin ConfigModels

\* C1: with retries = N >= 0 and every send attempt failing, exactly N+1 send
\* attempts are made before the caller receives a ProviderError.
C1_RetryExhaustion ==
    (/\ pc = "raised"
     /\ ~RequestRejected
     /\ ~ModelUnsupported
     /\ req.retries >= 0
     /\ attempts > 0
     /\ failures = attempts)
    => (attempts = req.retries + 1 /\ result = Raised("ProviderError"))

\* C2: a rejected request or an unsupported model makes chat/achat raise with
\* no call of generate_client ever made, whatever retries is.
C2_FailFast ==
    (RequestRejected \/ ModelUnsupported)
    => /\ attempts = 0
       /\ hs = "none"
       /\ pc \in {"start", "validated", "raised"}
       /\ (pc = "raised" => result.kind = "error")

C2_Witness ==
    /\ pc = "raised"
    /\ ~RequestRejected
    /\ ModelUnsupported
    /\ req.retries = MaxRetries
    /\ attempts = 0
    /\ result.kind = "error"

\* C3 as stated: a request that fails validation reaches the caller as a
\* ValidationError, a class other than ProviderError.
C3_ValidationErrorReachesCaller ==
    (pc = "raised" /\ RequestRejected) => result.err = "ValidationError"

\* C3 amended: a request that fails validation reaches the caller as a
\* ProviderError, the class also used for an unsupported model.
C3_ValidationSurfacesAsProviderError ==
    (pc = "raised" /\ RequestRejected)
    => (result = Raised("ProviderError") /\ attempts = 0)

C3_Witness ==
    /\ pc = "raised"
    /\ RequestRejected
    /\ req.model # None
    /\ req.temperature > TemperatureMax(prov)
    /\ result.kind = "error"

\* C4: every failure after validation reaches the caller as ProviderError,
\* the exceptions raised while the returned stream is iterated included.
C4_EveryFailureIsProviderError ==
    /\ (result.kind = "error" => result.err = "ProviderError")
    /\ (hs = "failed" => herr = "ProviderError")

Intermediates == SelectSeq(delivered, LAMBDA e : e.metrics.isNone)

AllChunks == ParseResponse(prov, events).chunks

\* C5: the intermediate elements are yielded in the arrival order of the
\* chunks they are made from, each from a chunk already consumed, and the
\* final element only once every upstream chunk has been consumed.
C5_ChunkOrdering ==
    /\ \A i, j \in 1..Len(Intermediates) :
         i < j => Intermediates[i].n < Intermediates[j].n
    /\ \A i \in 1..Len(Intermediates) :
         /\ Intermediates[i].n \in 1..Len(chunks)
         /\ Intermediates[i].content = chunks[Intermediates[i].n].content
    /\ \A i \in 1..Len(delivered) :
         ~delivered[i].metrics.isNone
         => /\ i = Len(delivered)
            /\ inq = <<>>
            /\ chunks = AllChunks

C5_Witness ==
    /\ hs = "final"
    /\ Len(Intermediates) >= 2
    /\ Len(delivered) = Len(Intermediates) + 1
    /\ Intermediates[1].content # Intermediates[2].content

\* C6: of the elements delivered for one streamed response exactly one has a
\* finish_reason other than none, and it is the last.
C6_ExactlyOneTerminal ==
    hs \in {"final", "done"}
    => /\ delivered # <<>>
       /\ delivered[Len(delivered)].fr # "none"
       /\ \A i \in 1..(Len(delivered) - 1) : delivered[i].fr = "none"

\* C7: every element but the last has metrics None and chat_output "", the
\* element with metrics is the last one yielded, and a completed stream has
\* exactly one.
C7_MetricsOnlyOnFinal ==
    /\ \A i \in 1..Len(delivered) :
         /\ i < Len(delivered)
            => (delivered[i].metrics.isNone /\ delivered[i].chat_output = "")
         /\ ~delivered[i].metrics.isNone
            => (i = Len(delivered) /\ hs \in {"final", "done"})
    /\ hs \in {"final", "done"}
       => (delivered # <<>> /\ ~delivered[Len(delivered)].metrics.isNone)

C7_Witness ==
    /\ hs = "done"
    /\ Len(delivered) >= 3
    /\ ~delivered[Len(delivered)].metrics.isNone

FragmentAt(k) == chunks[k].tool_calls[1]

HasFragment(k) == chunks[k].tool_calls # NoToolCalls

FragmentIndexes == {FragmentAt(k).index : k \in {m \in 1..Len(chunks) : HasFragment(m)}}

FirstOfIndex(i) ==
    CHOOSE k \in 1..Len(chunks) :
      /\ HasFragment(k) /\ FragmentAt(k).index = i
      /\ \A m \in 1..(k - 1) : ~(HasFragment(m) /\ FragmentAt(m).index = i)

\* Each call's first fragment carries its id and name.
HeadsFirst ==
    \A i \in FragmentIndexes :
      FragmentAt(FirstOfIndex(i)).id # None /\ FragmentAt(FirstOfIndex(i)).name # None

RECURSIVE ArgumentsOfIndex(_, _)
ArgumentsOfIndex(i, k) ==
    IF k > Len(chunks) THEN ""
    ELSE (IF HasFragment(k) /\ FragmentAt(k).index = i
          THEN FragmentAt(k).arguments ELSE "")
         \o ArgumentsOfIndex(i, k + 1)

UnknownTerminal ==
    /\ chunks # <<>>
    /\ inq = <<>>
    /\ perr = "none"
    /\ chunks[Len(chunks)].fr \notin KnownReasons

\* C9: when the last chunk's finish_reason is none of stop, length,
\* tool_calls, function_call, the handler fails and yields no element with
\* metrics.
C9_UnknownReasonFails ==
    (UnknownTerminal /\ hs # "running")
    => /\ hs = "failed"
       /\ \A i \in 1..Len(delivered) : delivered[i].metrics.isNone

C9_Witness ==
    /\ UnknownTerminal
    /\ hs = "failed"
    /\ chunks[Len(chunks)].fr = "content_filter"
    /\ Len(delivered) >= 2

\* C10: an unknown terminal finish_reason reaches the caller as a
\* ProviderError.
C10_UnknownReasonIsProviderError ==
    (UnknownTerminal /\ hs = "failed") => herr = "ProviderError"

MetricsCalled ==
    /\ call.op \in {"calculate_metrics_stream", "calculate_metrics_non_stream"}
    /\ ret # <<>>
    /\ ret[1].err = "none"

\* C11: in every Metrics object, and in the legacy OpenAI result,
\* total_tokens = input_tokens + output_tokens and both counts are >= 0.
C11_TokenAccounting ==
    /\ MetricsCalled
       => /\ ret[1].metrics.total_tokens
               = ret[1].metrics.input_tokens + ret[1].metrics.output_tokens
          /\ ret[1].metrics.input_tokens >= 0
          /\ ret[1].metrics.output_tokens >= 0
    /\ (call.op = "legacy_chat" /\ ret # <<>>)
       => /\ ret[1].totalTokens = ret[1].inputTokens + ret[1].outputTokens
          /\ ret[1].inputTokens >= 0
          /\ ret[1].outputTokens >= 0

C11_Witness ==
    /\ MetricsCalled
    /\ call.op = "calculate_metrics_non_stream"
    /\ call.output.usage.input_tokens > 0
    /\ call.output.usage.output_tokens = 0
    /\ ret[1].metrics.input_tokens = call.output.usage.input_tokens
    /\ ret[1].metrics.output_tokens > 0

\* The ranges cover 0, 1, 2, ... without gap or overlap.
Partitions(bands) ==
    /\ bands # <<>>
    /\ bands[1].lo = 0
    /\ bands[Len(bands)].hiNone
    /\ \A k \in 1..(Len(bands) - 1) :
         /\ ~bands[k].hiNone
         /\ bands[k].lo <= bands[k].hi
         /\ bands[k + 1].lo = bands[k].hi + 1

RatesNonDecreasing(bands) ==
    \A k \in 1..(Len(bands) - 1) : bands[k].cost <= bands[k + 1].cost

BandedCostCalled ==
    /\ call.op = "calculate_cost"
    /\ call.token_cost.isList
    /\ Partitions(call.token_cost.bands)

CostsNonDecreasing == \A k \in 1..(Len(ret) - 1) : ret[k] <= ret[k + 1]

Containing(n, bands) ==
    {k \in 1..Len(bands) :
        bands[k].lo <= n /\ (bands[k].hiNone \/ n <= bands[k].hi)}

\* c is the cost the formula gives for n tokens under the price pl.
CostIs(c, n, pl) ==
    IF ~pl.isList THEN c = n * pl.rate
    ELSE Partitions(pl.bands)
         => /\ Cardinality(Containing(n, pl.bands)) = 1
            /\ \A k \in Containing(n, pl.bands) : c = n * pl.bands[k].cost

\* C13: total cost = cost(input_tokens, input rate) + cost(output_tokens,
\* output rate); a flat rate costs n * r, ranges cost n * the rate of the one
\* range that contains n.
C13_CostFormula ==
    /\ call.op = "calculate_cost"
       => \A k \in 1..Len(ret) : CostIs(ret[k], k - 1, call.token_cost)
    /\ MetricsCalled
       => \E ci, co \in 0..(ret[1].metrics.cost_usd) :
            /\ ret[1].metrics.cost_usd = ci + co
            /\ CostIs(ci, ret[1].metrics.input_tokens,
                      call.model_config.input_token_cost)
            /\ CostIs(co, ret[1].metrics.output_tokens,
                      call.model_config.output_token_cost)
    /\ (call.op = "legacy_chat" /\ ret # <<>>)
       => ret[1].cost = ret[1].inputTokens * call.pricing.input_tokens
                        + ret[1].outputTokens * call.pricing.output_tokens

C13_Witness ==
    /\ MetricsCalled
    /\ call.op = "calculate_metrics_stream"
    /\ call.model_config.input_token_cost.isList
    /\ Partitions(call.model_config.input_token_cost.bands)
    /\ Len(call.model_config.input_token_cost.bands) = 2
    /\ call.model_config.input_token_cost.bands[1].cost
         # call.model_config.input_token_cost.bands[2].cost
    /\ ret[1].metrics.input_tokens
         >= call.model_config.input_token_cost.bands[2].lo
    /\ call.model_config.output_token_cost.isList
    /\ ret[1].metrics.output_tokens >= 2
    /\ ret[1].metrics.cost_usd > 0

CompletionReturned == pc = "returned" /\ result.kind = "completion"

\* C14: a non-streaming result takes its token counts from the response's
\* usage when it has them, and otherwise counts the tokens of the request's
\* chat_input and of the response's output text.
C14_NonStreamTokenCounts ==
    CompletionReturned
    => /\ result.value.metrics.input_tokens
            = (IF result.value.usage.input_tokens # 0
               THEN result.value.usage.input_tokens
               ELSE Tokens(req.chat_input))
       /\ result.value.metrics.output_tokens
            = (IF result.value.usage.output_tokens # 0
               THEN result.value.usage.output_tokens
               ELSE Tokens(result.value.chat_output))

\* C15: a non-streaming result for a response with finish_reason stop and
\* content C has chat_output C and metrics with total_tokens > 0 and
\* cost_usd >= 0.
C15_NonStreamEndToEnd ==
    (CompletionReturned /\ result.value.fr = "stop")
    => /\ result.value.chat_output = result.value.content
       /\ ~result.value.metrics.isNone
       /\ result.value.metrics.total_tokens > 0
       /\ result.value.metrics.cost_usd >= 0

C15_Witness ==
    /\ CompletionReturned
    /\ result.value.fr = "stop"
    /\ result.value.chat_output = "a"
    /\ result.value.usage = NoUsage
    /\ result.value.metrics.total_tokens > 0
    /\ result.value.metrics.cost_usd > 0

FieldValidated == call.op = "validate_field" /\ ret # <<>>

RECURSIVE FamilyOf(_)
FamilyOf(model) ==
    IF model = <<>> \/ Head(model) = "." THEN ""
    ELSE Head(model) \o FamilyOf(Tail(model))

HasFamily(model) ==
    /\ \E i \in 1..Len(model) : model[i] = "."
    /\ Head(model) # "."

\* C17: a model id of the anthropic family is routed to the Bedrock
\* Anthropic sub-adapter; one of any other family fails, without a send, with
\* an error whose message names that family.
C17_BedrockSubDispatch ==
    (call.op = "generate_client" /\ ret # <<>> /\ HasFamily(call.model))
    => IF FamilyOf(call.model) = "anthropic"
       THEN ret[1].err = "none"
            /\ ret[1].selected_model = "BedrockAntropicProvider"
       ELSE /\ ret[1].err # "none"
            /\ ret[1].sends = 0
            /\ \E k \in 1..Len(ret[1].message) :
                 ret[1].message[k] = FamilyOf(call.model)

\* The chunks C18 expects of the lines: one terminal chunk for a stop line,
\* one text chunk for a content delta, none for any other line.
RECURSIVE LinesToChunks(_)
LinesToChunks(lines) ==
    IF lines = <<>> THEN <<>>
    ELSE (CASE Head(lines).kind \in {"content_block_stop", "message_stop"} ->
                 <<TerminalChunk("stop")>>
            [] Head(lines).kind = "content_block_delta" ->
                 <<TextChunk(Head(lines).text)>>
            [] OTHER -> <<>>)
         \o LinesToChunks(Tail(lines))

\* C18: the Anthropic normalizer yields one terminal chunk per stop line, one
\* text chunk per content-delta line, nothing for any other or malformed
\* line, and never raises.
C18_AnthropicNormalizer ==
    prov = "anthropic"
    => /\ herr \notin {"UnicodeDecodeError", "JSONDecodeError"}
       /\ (hs = "running" /\ perr = "none")
          => /\ Len(chunks \o inq) = Len(LinesToChunks(events))
             /\ \A k \in 1..Len(chunks \o inq) :
                  /\ (chunks \o inq)[k].fr = LinesToChunks(events)[k].fr
                  /\ (chunks \o inq)[k].content
                       = LinesToChunks(events)[k].content

\* The handler has consumed a chunk with a finish_reason before chunk k.
AfterTerminal(k) == \E j \in 1..(k - 1) : chunks[j].fr # "none"

\* C19: once a chunk with a finish_reason has been seen, no later upstream
\* chunk is taken into the buffer that is joined, and none is yielded to the
\* consumer.
C19_NothingAfterTerminal ==
    /\ \A k \in 1..Len(chunks) : ~AfterTerminal(k)
    /\ \A i \in 1..Len(delivered) :
         delivered[i].n \in 1..Len(chunks) => ~AfterTerminal(delivered[i].n)

NamedOfIndex(i) ==
    {k \in 1..Len(chunks) :
        HasFragment(k) /\ FragmentAt(k).index = i /\ FragmentAt(k).name # None}

FirstNamedOfIndex(i) ==
    CHOOSE k \in NamedOfIndex(i) : \A m \in NamedOfIndex(i) : k <= m

\* Every call has its id on its first fragment and a name on some fragment.
CallsNamed ==
    \A i \in FragmentIndexes :
      FragmentAt(FirstOfIndex(i)).id # None /\ NamedOfIndex(i) # {}

\* C20: a tool_calls-terminated list joins to one completion with one tool
\* call per distinct index, each named by the first fragment of its index
\* that bears a name.
C20_ToolCallJoinShape ==
    (joined # <<>> /\ chunks[Len(chunks)].fr = "tool_calls" /\ CallsNamed)
    => /\ joined[1].err = "none"
       /\ ~joined[1].isNone
       /\ Len(joined[1].tool_calls) = Cardinality(FragmentIndexes)
       /\ \A i \in FragmentIndexes :
            \E k \in 1..Len(joined[1].tool_calls) :
              /\ joined[1].tool_calls[k].id = FragmentAt(FirstOfIndex(i)).id
              /\ joined[1].tool_calls[k].name
                   = FragmentAt(FirstNamedOfIndex(i)).name

\* The function_call fragments of the whole chunk list, in arrival order.
FunctionFragments ==
    SeqMap(LAMBDA c : c.function_call,
           SelectSeq(chunks, LAMBDA c : ~c.function_call.isNone))

FirstNamedFragment ==
    CHOOSE k \in 1..Len(FunctionFragments) :
        /\ FunctionFragments[k].name # None
        /\ \A m \in 1..(k - 1) : FunctionFragments[m].name = None

FunctionCallNamed ==
    \E k \in 1..Len(FunctionFragments) : FunctionFragments[k].name # None

\* C21: a function_call-terminated list joins to the concatenation of every
\* function_call argument fragment in arrival order, named by the first
\* fragment that declares a name.
C21_FunctionCallJoin ==
    (joined # <<>> /\ chunks[Len(chunks)].fr = "function_call"
       /\ FunctionCallNamed)
    => /\ joined[1].err = "none"
       /\ ~joined[1].function_call.isNone
       /\ joined[1].function_call.arguments
            = ConcatAll(SeqMap(LAMBDA f : f.arguments, FunctionFragments))
       /\ joined[1].function_call.name
            = FunctionFragments[FirstNamedFragment].name

\* The text deltas of the chunks from position first on, in arrival order.
TextFrom(first) ==
    ConcatAll(SeqMap(LAMBDA c : c.content,
                     SelectSeq(SubSeq(chunks, first, Len(chunks)),
                               LAMBDA c : c.content # None)))

\* C22: a list terminated by stop or length joins to the concatenation, in
\* arrival order, of all non-null text deltas, leaving out exactly the first
\* chunk for OpenAIProvider and AzureProvider and no chunk for the others.
C22_TextJoin ==
    (joined # <<>> /\ chunks[Len(chunks)].fr \in {"stop", "length"})
    => /\ joined[1].err = "none"
       /\ ~joined[1].isNone
       /\ joined[1].content
            = TextFrom(IF prov \in {"openai", "azure"} THEN 2 ELSE 1)
       /\ joined[1].output = joined[1].content

C22_Witness ==
    /\ joined # <<>>
    /\ chunks[Len(chunks)].fr = "length"
    /\ prov = "azure"
    /\ Len(chunks) >= 4
    /\ chunks[1].content = "a"
    /\ chunks[2].content = None
    /\ joined[1].content = "b"

C24_StreamTokenCounts ==
    hs \in {"final", "done"}
    => LET last == delivered[Len(delivered)] IN
       /\ last.metrics.input_tokens = Tokens(req.chat_input)
       /\ last.metrics.output_tokens = Tokens(last.chat_output)

\* C25: after k chunks the handler holds max(k - 1, 0) arrival gaps;
\* inter_token_latency is their mean, and 0 with fewer than two chunks;
\* tokens_per_second is the chunk count over the total time, and 0 when the
\* total time is 0; no quotient has a zero divisor.
C25_LatencyMetrics ==
    call.op = "handle_response_stream"
    => LET k == Len(call.arrivals) IN
       /\ call.token_count = k
       /\ Len(call.token_times) = (IF k >= 1 THEN k - 1 ELSE 0)
       /\ \A i \in 1..Len(call.token_times) :
            call.token_times[i] = call.arrivals[i + 1] - call.arrivals[i]
       /\ (ret # <<>> /\ ret[1].err = "none")
          => /\ ret[1].inter_token_latency.den # 0
             /\ ret[1].tokens_per_second.den # 0
             /\ k < 2 => ret[1].inter_token_latency.num = 0
             /\ k >= 2
                => ret[1].inter_token_latency
                     = Ratio(call.arrivals[k] - call.arrivals[1], k - 1)
             /\ ret[1].total_time = call.clock - call.start_time
             /\ ret[1].total_time = 0 => ret[1].tokens_per_second.num = 0
             /\ ret[1].total_time > 0
                => ret[1].tokens_per_second = Ratio(k, ret[1].total_time)

C25_Witness ==
    /\ call.op = "handle_response_stream"
    /\ ret # <<>>
    /\ ret[1].err = "none"
    /\ call.token_count = 3
    /\ ret[1].inter_token_latency = Ratio(3, 2)
    /\ ret[1].tokens_per_second = Ratio(3, 3)

BothServed == call.op = "serve" /\ Served("non_stream") /\ Served("stream")

ServedBy(path) == ret[CHOOSE i \in 1..Len(ret) : ret[i].path = path]

\* C26: for one upstream response (text, tool calls or a function call) the
\* non-streaming result and the final element of the stream have the same
\* chat_output and the same finish_reason, and neither path fails.
C26_StreamNonStreamEquivalent ==
    BothServed
    => /\ ServedBy("non_stream").err = "none"
       /\ ServedBy("stream").err = "none"
       /\ ServedBy("non_stream").chat_output = ServedBy("stream").chat_output
       /\ ServedBy("non_stream").fr = ServedBy("stream").fr

\* C27: achat delivers what chat delivers: with is_stream false, whenever
\* the call has returned, the caller holds a complete response, not a
\* pending coroutine and not an error.
C27_AsyncDeliversAsSync ==
    (mode = "achat" /\ ~req.is_stream /\ pc \in {"returned", "awaited"})
    => result.kind = "completion"

\* C28: with the Anthropic or the VertexAI normalizer, a stream never fails
\* on an event that cannot be decoded or parsed: such an event is passed
\* over and its error does not reach the consumer.
C28_ParseAnomaliesSkipped ==
    (prov \in {"anthropic", "vertexai"} /\ hs = "failed")
    => herr \notin {"JSONDecodeError", "UnicodeDecodeError"}

FunctionCallNormalized ==
    /\ call.op = "parse_response"
    /\ call.event.kind = "functionCall"
    /\ ret # <<>>

\* C29 as stated: a function-call event becomes exactly three chunks: the
\* call's name with empty arguments, the full arguments as one fragment, and
\* a chunk with finish_reason tool_calls.
C29_ThreeChunkExpansion ==
    FunctionCallNormalized
    => LET out == ret[1].chunks IN
       /\ ret[1].err = "none"
       /\ Len(out) = 3
       /\ out[1].tool_calls # NoToolCalls
       /\ out[1].tool_calls[1].name = call.event.parts[1].name
       /\ out[1].tool_calls[1].arguments = ""
       /\ out[2].tool_calls # NoToolCalls
       /\ out[2].tool_calls[1].arguments = call.event.parts[1].args
       /\ out[3].fr = "tool_calls"

\* C29, amended: the VertexAI normalizer turns an event of n function-call
\* parts into 2n + 2 chunks: a role-only chunk without a call, then per part
\* and in order a chunk with the call's name and empty arguments and a chunk
\* with its full arguments, both under the part's index, then a chunk with
\* finish_reason tool_calls.  The older Vertex normalizer turns the first
\* part into three chunks: a function_call delta with the name and empty
\* arguments, one with the full arguments, and a chunk with finish_reason
\* function_call.
C29_FunctionCallExpansion ==
    FunctionCallNormalized
    => LET out   == ret[1].chunks
           parts == call.event.parts
           n     == Len(parts)
       IN
       /\ ret[1].err = "none"
       /\ \A k \in 1..(Len(out) - 1) : out[k].fr = "none"
       /\ \A k \in 1..Len(out) : out[k].content = None
       /\ prov = "vertexai"
          => /\ Len(out) = 2 * n + 2
             /\ out[1].tool_calls = NoToolCalls
             /\ out[1].function_call = NoFunctionCall
             /\ \A i \in 1..n :
                  /\ Len(out[2 * i].tool_calls) = 1
                  /\ out[2 * i].tool_calls[1].index = i - 1
                  /\ out[2 * i].tool_calls[1].name = parts[i].name
                  /\ out[2 * i].tool_calls[1].arguments = ""
                  /\ out[2 * i].tool_calls[1].id # None
                  /\ Len(out[2 * i + 1].tool_calls) = 1
                  /\ out[2 * i + 1].tool_calls[1].index = i - 1
                  /\ out[2 * i + 1].tool_calls[1].name = None
                  /\ out[2 * i + 1].tool_calls[1].arguments = parts[i].args
             /\ out[Len(out)].fr = "tool_calls"
             /\ out[Len(out)].tool_calls = NoToolCalls
       /\ prov = "vertex"
          => /\ Len(out) = 3
             /\ out[1].function_call = FunctionCallDelta(parts[1].name, "")
             /\ out[2].function_call = FunctionCallDelta(None, parts[1].args)
             /\ out[3].fr = "function_call"
             /\ out[3].function_call = NoFunctionCall
             /\ \A k \in 1..3 : out[k].tool_calls = NoToolCalls

C29_Witness ==
    /\ FunctionCallNormalized
    /\ prov = "vertexai"
    /\ Len(call.event.parts) = 2
    /\ Len(ret[1].chunks) = 6
    /\ ret[1].chunks[4].tool_calls[1].name = "g"
    /\ ret[1].chunks[5].tool_calls[1].arguments = "y"

TextNormalized ==
    /\ call.op = "parse_response"
    /\ call.event.kind = "text"
    /\ ret # <<>>

\* C30: an event with a non-empty text part becomes exactly two chunks, a
\* text delta without finish_reason carrying the event's text and then a
\* chunk with finish_reason stop and an empty delta; an event with neither a
\* function call nor text becomes no chunk.
C30_TextExpansion ==
    TextNormalized
    => LET out == ret[1].chunks IN
       /\ ret[1].err = "none"
       /\ call.event.text # ""
          => /\ Len(out) = 2
             /\ out[1].content = call.event.text
             /\ out[1].fr = "none"
             /\ out[2].fr = "stop"
             /\ out[2].content = None
             /\ \A k \in 1..2 : /\ out[k].tool_calls = NoToolCalls
                                /\ out[k].function_call = NoFunctionCall
       /\ call.event.text = "" => out = <<>>

C30_Witness ==
    /\ TextNormalized
    /\ prov = "vertexai"
    /\ call.event.text = "ab"
    /\ Len(ret[1].chunks) = 2
    /\ ret[1].chunks[1].content = "ab"
    /\ ret[1].chunks[2].fr = "stop"

\* C35: the completion join_chunks returns has the finish_reason of the last
\* chunk of its input, for stop, length, tool_calls and function_call.
C35_FinishReasonPreserved ==
    (/\ joined # <<>>
     /\ joined[1].err = "none"
     /\ ~joined[1].isNone
     /\ chunks[Len(chunks)].fr \in KnownReasons)
    => joined[1].fr = chunks[Len(chunks)].fr

\* The text streamed so far: chat_output_stream of the intermediate elements.
StreamedText ==
    ConcatAll(SeqMap(LAMBDA e : e.chat_output_stream,
                     SelectSeq(delivered, LAMBDA e : e.metrics.isNone)))

\* C34: when a stream ended by stop or length has delivered its final
\* element, the chat_output_stream values of the elements before it,
\* concatenated in emission order, are the final element's chat_output.
C34_StreamedTextIsFinalText ==
    (hs \in {"final", "done"} /\ chunks[Len(chunks)].fr \in {"stop", "length"})
    => delivered[Len(delivered)].chat_output = StreamedText

EndsWithKnownReason ==
    /\ perr = "none"
    /\ AllChunks # <<>>
    /\ AllChunks[Len(AllChunks)].fr \in KnownReasons

\* C36: a drained stream ends in one of two ways: when its last chunk has a
\* known finish_reason, with exactly one element bearing metrics, the last;
\* otherwise with a ProviderError.
C36_StreamCompletion ==
    hs \in {"done", "failed"}
    => IF EndsWithKnownReason
       THEN /\ hs = "done"
            /\ Len(SelectSeq(delivered, LAMBDA e : ~e.metrics.isNone)) = 1
            /\ ~delivered[Len(delivered)].metrics.isNone
       ELSE /\ hs = "failed"
            /\ herr = "ProviderError"

\* C38: for a list of ranges, a count that lies in no range costs 0, and a
\* count that lies in several costs the count times the rate of the first
\* listed range that contains it.
C38_NoMatchingBand ==
    (call.op = "calculate_cost" /\ call.token_cost.isList)
    => \A k \in 1..Len(ret) :
         LET n  == k - 1
             in == Containing(n, call.token_cost.bands)
         IN  IF in = {} THEN ret[k] = 0
             ELSE \E first \in in :
                    /\ \A other \in in : first <= other
                    /\ ret[k] = n * call.token_cost.bands[first].cost

C38_Witness ==
    /\ call.op = "calculate_cost"
    /\ call.token_cost.isList
    /\ Len(ret) = MaxTokens + 1
    /\ \E k \in 2..(Len(ret) - 1) :
         /\ Containing(k - 1, call.token_cost.bands) = {}
         /\ ret[k] = 0
         /\ ret[k - 1] > 0
         /\ ret[k + 1] > 0

\* C33: whatever attempts were given up before, the chunk buffer of the
\* running invocation holds only chunks of its own upstream stream, in
\* order from the first; the elements delivered are made from those chunks;
\* and the joined result is the join of that stream alone.
C33_NoMergingAcrossAttempts ==
    /\ Len(chunks) <= Len(AllChunks)
    /\ chunks = SubSeq(AllChunks, 1, Len(chunks))
    /\ \A i \in 1..Len(delivered) :
         /\ delivered[i].n \in 1..Len(chunks)
         /\ delivered[i].content = AllChunks[delivered[i].n].content
    /\ joined # <<>> => joined[1] = join_chunks(ClassName(prov), AllChunks)

C33_Witness ==
    /\ attempts = MaxAttempts
    /\ hs = "done"
    /\ joined # <<>>
    /\ Len(chunks) = MaxChatEvents
    /\ delivered[Len(delivered)].chat_output = "a"

\* C32: with two requests in flight on one adapter instance, each request's
\* response is parsed by the sub-adapter selected for that request, in every
\* interleaving.
C32_RequestIsolation ==
    call.op = "concurrent"
    => \A r \in {1, 2} : call.pcs[r] = "parsed" => call.parsedBy[r] = r

LegacyContents == SelectSeq(delivered, LAMBDA e : ~e.marker)

LegacyMarkers == SelectSeq(delivered, LAMBDA e : e.marker)

\* The contents of the events read so far that have a chunk, in order.
BedrockContentsRead ==
    SeqMap(LAMBDA ev : ev.content,
           SelectSeq(SubSeq(events, 1, Len(events) - Len(inq)),
                     LAMBDA ev : ev.hasChunk))

\* C31: the legacy Bedrock generator yields the content of every event that
\* has a chunk, in arrival order, and when the events are exhausted exactly
\* one marker, the last element, with 0 input tokens, 0 output tokens and
\* cost 0.
C31_BedrockLegacyStream ==
    prov = "bedrock"
    => /\ SeqMap(LAMBDA e : e.text, LegacyContents) = BedrockContentsRead
       /\ hs = "running" => LegacyMarkers = <<>>
       /\ hs = "done"
          => /\ inq = <<>>
             /\ Len(LegacyMarkers) = 1
             /\ delivered[Len(delivered)].marker
             /\ delivered[Len(delivered)].input_tokens = 0
             /\ delivered[Len(delivered)].output_tokens = 0
             /\ delivered[Len(delivered)].cost = 0

C31_Witness ==
    /\ prov = "bedrock"
    /\ hs = "done"
    /\ Len(events) = MaxLegacyEvents
    /\ ~events[2].hasChunk
    /\ Len(delivered) = MaxLegacyEvents
    /\ delivered[1].text = "a"
    /\ delivered[2].text = "b"

\* The text chunks read so far whose finish_reason is neither stop nor length.
OpenAIContentsRead ==
    SeqMap(LAMBDA ev : ev.content,
           SelectSeq(SubSeq(events, 1, Len(events) - Len(inq)),
                     LAMBDA ev : ev.fr \notin {"stop", "length"}))

\* C37: the legacy OpenAI generator, over any finite chunk sequence, yields
\* each non-terminal chunk's content in arrival order and the end marker
\* exactly once, as the last element, its output token count that of all the
\* content yielded before it.
C37_OpenAILegacyMarker ==
    (prov = "openai" /\ hs \in {"done", "failed"})
    => /\ hs = "done"
       /\ SeqMap(LAMBDA e : e.text, LegacyContents) = OpenAIContentsRead
       /\ Len(LegacyMarkers) = 1
       /\ delivered[Len(delivered)].marker
       /\ delivered[Len(delivered)].output_tokens
            = Tokens(ConcatAll(OpenAIContentsRead))

=============================================================================
